---- MODULE Spec2Model ----
(***************************************************************************)
(* A model of src/vs/base/node/pfs.ts: the write queue per path, the       *)
(* flushing write (writeFile, writeFileSync), SymlinkSupport.stat, copy,   *)
(* move and rimraf.  Every fs.* call of node.js is a step whose outcome    *)
(* (success or an error code) the environment chooses.                     *)
(***************************************************************************)
EXTENDS Integers, Sequences, FiniteSets, TLC

VARIABLES
    platform,             \* process.platform: decides isWindows / isMacintosh
    canFlush,             \* pfs.ts:332
    writeFilePathQueues,  \* pfs.ts:279, queue key -> queue (0: no entry)
    queues,               \* the Queue objects ever created, by id
    calls,                \* the writeFile / writeFileSync calls made so far
    nCalls,               \* how many calls were made
    content,              \* file -> what the file holds
    fs,                   \* the file system: real path -> node
    fs0,                  \* the file system before the operation
    faulty,               \* the fs call the environment lets fail, if any
    op,                   \* the operation called: stat, copy, move, rimraf, rimrafSync
    pc,                   \* where the operation stands
    stack,                \* the copy() activations, innermost last
    handledSources,       \* pfs.ts:481
    outcome,              \* how the operation's promise settled
    fsLog,                \* the fs calls made by the operation, in order
    bg,                   \* deletions started and not awaited (pfs.ts:73)
    interval,             \* pfs.ts:151: the timer of whenDeleted
    running,              \* pfs.ts:150
    win,                  \* windowImpl.ts:114: _win and the state of its BrowserWindow
    readyState,           \* windowImpl.ts:637
    whenReadyCallbacks,   \* windowImpl.ts:515
    promises,             \* the promises ready() returned
    microtasks,           \* promise reactions queued and not yet run
    config,               \* windowImpl.ts:501: _config (0: undefined)
    pendingLoadConfig,    \* windowImpl.ts:525 (0: undefined)
    nLoads,               \* how many times load() was called
    loading,              \* the loadURL navigations under way
    sent,                 \* the webContents.send calls made, in order
    warnings,             \* how many times send logged a warning
    transientIsNativeFullScreen,     \* windowImpl.ts:348
    joinNativeFullScreenTransition,  \* windowImpl.ts:349 (0: undefined)
    requests,             \* the doSetNativeFullScreen calls made, in order
    nativeFullScreen,     \* what win.isFullScreen() reports
    nativeQueue,          \* the native transitions requested and not finished
    destroying,           \* windowImpl.ts:884: the destroyWindow call and where it stands
    windowLog             \* what destroyWindow did to the window and the services, in order

writeVars == <<canFlush, writeFilePathQueues, queues, calls, nCalls, content>>

fsVars == <<fs, fs0, faulty, op, pc, stack, handledSources, outcome, fsLog, bg>>

wdVars == <<interval, running>>

winVars ==
    <<win, readyState, whenReadyCallbacks, promises, microtasks, config,
      pendingLoadConfig, nLoads, loading, sent, warnings,
      transientIsNativeFullScreen, joinNativeFullScreenTransition, requests,
      nativeFullScreen, nativeQueue, destroying, windowLog>>

vars == <<platform, writeVars, fsVars, wdVars, winVars>>

----------------------------------------------------------------------------
(* Bounds *)

\* writeFile and writeFileSync calls made in one run
MaxCalls == 3

\* fs.access calls whenDeleted makes while the path stays in place
MaxPolls == 3

\* Symbolic links the system follows in one path resolution before it
\* fails with ELOOP (40 on Linux)
MaxSymlinks == 2

----------------------------------------------------------------------------
(* Platform *)

Platforms == {"linux", "darwin", "win32"}

isWindows == platform = "win32"

isMacintosh == platform = "darwin"

----------------------------------------------------------------------------
(* Paths of the write model: two spellings of one name *)

WritePaths == {"a", "A"}

\* String.prototype.toLowerCase on the paths of the model
toLowerCase(s) == IF s = "A" THEN "a" ELSE IF s = "S" THEN "s" ELSE s

\* A plausible bug: the path is the key on every platform
toQueueKey_AsIs(path) == path

\* pfs.ts:295-302
toQueueKey(path) ==
    IF isWindows \/ isMacintosh THEN toLowerCase(path) ELSE path

QueueKeys == WritePaths

\* The file a path names: the volumes of Windows and macOS ignore case
\* (the file systems toQueueKey accommodates), those of Linux do not.
FileOf(path) ==
    IF isWindows \/ isMacintosh THEN toLowerCase(path) ELSE path

Files == WritePaths

----------------------------------------------------------------------------
(* What a file holds.  <<"full", d>>: the complete data of call d (d = 0:  *)
(* the content before any call); "empty": truncated; "partial": a prefix   *)
(* of some data; "mixed": bytes of overlapping writers.                    *)

Full(d) == <<"full", d>>

Empty == <<"empty", 0>>

Partial == <<"partial", 0>>

Mixed == <<"mixed", 0>>

CallIds == 1..MaxCalls

NoCall ==
    [kind |-> "none", path |-> "a", stage |-> "none", queue |-> 0,
     flushing |-> FALSE, synced |-> FALSE, overlapped |-> FALSE, result |-> "none"]

NoQueue == [key |-> "a", outstanding |-> <<>>, runningPromises |-> 0, disposed |-> FALSE]

\* The stages in which the underlying write of a call is in flight:
\* from fs.open (fs.writeFile without flushing) to the call of callback.
InFlight == {"open", "write", "sync", "close", "closeErr", "plain"}

\* The stages in which a call holds the file open and may have written it
Holding == {"write", "sync", "close", "closeErr", "plain"}

\* The stages in which a write to the file is under way in the thread pool
Writing == {"write", "plain"}

InitWrite ==
    /\ canFlush = TRUE
    /\ writeFilePathQueues = [k \in QueueKeys |-> 0]
    /\ queues = [q \in CallIds |-> NoQueue]
    /\ calls = [c \in CallIds |-> NoCall]
    /\ nCalls = 0
    /\ content = [f \in Files |-> Full(0)]

----------------------------------------------------------------------------
(* Queue<void> of vs/base/common/async: a Limiter of one running promise.  *)
(* A queue is identified by the call that created it.                      *)

\* Queue.queue: push the task to the outstanding ones
Queue_queue(Q, c) == [Q EXCEPT !.outstanding = Append(@, c)]

\* Limiter.consume: start the first outstanding task when none is running.
\* started = 0: nothing was started.
consume(Q) ==
    IF Len(Q.outstanding) > 0 /\ Q.runningPromises < 1
    THEN [Q |-> [Q EXCEPT !.outstanding = Tail(@), !.runningPromises = @ + 1],
          started |-> Head(Q.outstanding)]
    ELSE [Q |-> Q, started |-> 0]

\* Limiter.consumed: the running task settled; run the next one, or report
\* onFinished (finished = TRUE) when none is outstanding.
consumed(Q) ==
    LET Q1 == [Q EXCEPT !.runningPromises = @ - 1]
    IN  IF Len(Q1.outstanding) > 0
        THEN [Q |-> consume(Q1).Q, started |-> consume(Q1).started, finished |-> FALSE]
        ELSE [Q |-> Q1, started |-> 0, finished |-> TRUE]

----------------------------------------------------------------------------
(* writeFile *)

\* A plausible bug: a new queue for every call, the existing one ignored
ensureWriteFileQueue_AlwaysNew(queueKey, c) ==
    [queue |-> c,
     map   |-> [writeFilePathQueues EXCEPT ![queueKey] = c],
     all   |-> [queues EXCEPT ![c] = [NoQueue EXCEPT !.key = queueKey]]]

\* A plausible bug: one queue for all the paths, whatever their key
ensureWriteFileQueue_OneQueue(queueKey, c) ==
    IF \E k \in DOMAIN writeFilePathQueues : writeFilePathQueues[k] # 0
    THEN [queue |-> writeFilePathQueues[
                       CHOOSE k \in DOMAIN writeFilePathQueues :
                          writeFilePathQueues[k] # 0],
          map   |-> writeFilePathQueues,
          all   |-> queues]
    ELSE [queue |-> c,
          map   |-> [writeFilePathQueues EXCEPT ![queueKey] = c],
          all   |-> [queues EXCEPT ![c] = [NoQueue EXCEPT !.key = queueKey]]]

\* pfs.ts:304-320. c: the call on whose behalf a new queue is created.
\* The result: the queue, writeFilePathQueues and the queues afterwards.
ensureWriteFileQueue(queueKey, c) ==
    IF writeFilePathQueues[queueKey] # 0
    THEN [queue |-> writeFilePathQueues[queueKey],
          map   |-> writeFilePathQueues,
          all   |-> queues]
    ELSE [queue |-> c,
          map   |-> [writeFilePathQueues EXCEPT ![queueKey] = c],
          all   |-> [queues EXCEPT ![c] = [NoQueue EXCEPT !.key = queueKey]]]

\* A plausible bug: the file is opened and flushed whatever canFlush says
doWriteFileAndFlush_AlwaysFlush(cs, c) ==
    [cs EXCEPT ![c].stage = "open", ![c].flushing = TRUE]

\* pfs.ts:339-345, the synchronous part of doWriteFileAndFlush: fs.writeFile
\* on the path when flushing is disabled, fs.open otherwise.  flushing: the
\* call takes the way of fs.open, fs.fdatasync and fs.close.
doWriteFileAndFlush(cs, c) ==
    [cs EXCEPT ![c].stage = IF canFlush THEN "open" ELSE "plain",
               ![c].flushing = canFlush]

\* Another call is writing file f in the thread pool right now
OthersWriting(c, f) ==
    \E d \in CallIds : d # c /\ calls[d].stage \in Writing /\ FileOf(calls[d].path) = f

\* Call c changes file f: that overlaps the calls that hold f open, and
\* overlaps c when another call is writing f.
Touch(cs, c, f) ==
    [d \in CallIds |->
        IF d # c /\ cs[d].stage \in Holding /\ FileOf(cs[d].path) = f
        THEN [cs[d] EXCEPT !.overlapped = TRUE]
        ELSE IF d = c
        THEN [cs[d] EXCEPT !.overlapped = @ \/ OthersWriting(c, f)]
        ELSE cs[d]]

\* What file f may hold after call c wrote its data completely
AfterWrite(c, f) ==
    IF calls[c].overlapped \/ OthersWriting(c, f)
    THEN {Full(c), Mixed, content[f]}
    ELSE {Full(c)}

\* What file f may hold after a write of call c that failed part-way
AfterFailedWrite(c, f) ==
    IF calls[c].overlapped \/ OthersWriting(c, f)
    THEN {Empty, Partial, Mixed, content[f]}
    ELSE {Empty, Partial}

\* pfs.ts:285-293: queue the write on the queue of the path's key
writeFile(path) ==
    /\ nCalls < MaxCalls
    /\ LET c  == nCalls + 1
           e  == ensureWriteFileQueue(toQueueKey(path), c)
           r  == consume(Queue_queue(e.all[e.queue], c))
           cs == [calls EXCEPT ![c] = [NoCall EXCEPT !.kind = "async", !.path = path,
                                                     !.stage = "queued", !.queue = e.queue]]
       IN  /\ nCalls' = c
           /\ writeFilePathQueues' = e.map
           /\ queues' = [e.all EXCEPT ![e.queue] = r.Q]
           /\ calls' = IF r.started # 0 THEN doWriteFileAndFlush(cs, r.started) ELSE cs
    /\ UNCHANGED <<platform, fsVars, wdVars, winVars, canFlush, content>>

\* A plausible bug: a write that failed leaves the queue where it is, and
\* the writes that wait behind it are not run
Settle_FailureStopsQueue(c, res, cs) ==
    LET q   == cs[c].queue
        r   == consumed(queues[q])
        cs1 == [cs EXCEPT ![c].stage = "done", ![c].result = res]
    IN  IF res = "ok"
        THEN /\ queues' = [queues EXCEPT ![q] = IF r.finished
                                                THEN [r.Q EXCEPT !.disposed = TRUE]
                                                ELSE r.Q]
             /\ writeFilePathQueues' =
                   IF r.finished
                   THEN [writeFilePathQueues EXCEPT ![queues[q].key] = 0]
                   ELSE writeFilePathQueues
             /\ calls' = IF r.started # 0 THEN doWriteFileAndFlush(cs1, r.started) ELSE cs1
        ELSE /\ calls' = cs1
             /\ UNCHANGED <<queues, writeFilePathQueues>>

\* pfs.ts:291 and 313-317: callback(error) settles the promise of call c;
\* the queue runs its next task, or finishes and is removed from the map.
\* cs: the calls after the step that called callback.
Settle(c, res, cs) ==
    LET q   == cs[c].queue
        r   == consumed(queues[q])
        cs1 == [cs EXCEPT ![c].stage = "done", ![c].result = res]
    IN  /\ queues' = [queues EXCEPT ![q] = IF r.finished
                                           THEN [r.Q EXCEPT !.disposed = TRUE]
                                           ELSE r.Q]
        /\ writeFilePathQueues' =
              IF r.finished
              THEN [writeFilePathQueues EXCEPT ![queues[q].key] = 0]
              ELSE writeFilePathQueues
        /\ calls' = IF r.started # 0 THEN doWriteFileAndFlush(cs1, r.started) ELSE cs1

\* pfs.ts:345-351: the callback of fs.open
OpenCallback(c, ok) ==
    /\ calls[c].stage = "open"
    /\ LET f == FileOf(calls[c].path)
       IN  IF ok
           THEN /\ content' = [content EXCEPT ![f] = Empty]   \* flag 'w' truncates
                /\ calls' = [Touch(calls, c, f) EXCEPT ![c].stage = "write"]
                /\ UNCHANGED <<queues, writeFilePathQueues>>
           ELSE /\ Settle(c, "err", calls)
                /\ UNCHANGED content
    /\ UNCHANGED <<platform, fsVars, wdVars, winVars, canFlush, nCalls>>

\* pfs.ts:351-357: the callback of fs.writeFile(fd, data)
WriteCallback(c, ok) ==
    /\ calls[c].stage = "write"
    /\ LET f == FileOf(calls[c].path)
       IN  /\ \E v \in (IF ok THEN AfterWrite(c, f) ELSE AfterFailedWrite(c, f)) :
                 content' = [content EXCEPT ![f] = v]
           /\ calls' = [Touch(calls, c, f) EXCEPT
                           ![c].stage = IF ok THEN "sync" ELSE "closeErr"]
    /\ UNCHANGED <<platform, fsVars, wdVars, winVars, canFlush, nCalls, queues, writeFilePathQueues>>

\* A plausible bug: a failed fdatasync does not disable flushing
SyncCallback_KeepFlushing(c, ok) ==
    /\ calls[c].stage = "sync"
    /\ calls' = [calls EXCEPT ![c].stage = "close", ![c].synced = ok]
    /\ UNCHANGED <<platform, fsVars, wdVars, winVars, canFlush, nCalls, queues, writeFilePathQueues, content>>

\* pfs.ts:357-366: the callback of fs.fdatasync
SyncCallback(c, ok) ==
    /\ calls[c].stage = "sync"
    /\ canFlush' = IF ok THEN canFlush ELSE FALSE
    /\ calls' = [calls EXCEPT ![c].stage = "close", ![c].synced = ok]
    /\ UNCHANGED <<platform, fsVars, wdVars, winVars, nCalls, queues, writeFilePathQueues, content>>

\* pfs.ts:366: the callback of fs.close after the flush: callback(closeError)
CloseCallback(c, ok) ==
    /\ calls[c].stage = "close"
    /\ Settle(c, IF ok THEN "ok" ELSE "err", calls)
    /\ UNCHANGED <<platform, fsVars, wdVars, winVars, canFlush, nCalls, content>>

\* A plausible bug: the write error is dropped and success reported
CloseAfterErrorCallback_Swallow(c) ==
    /\ calls[c].stage = "closeErr"
    /\ Settle(c, "ok", calls)
    /\ UNCHANGED <<platform, fsVars, wdVars, winVars, canFlush, nCalls, content>>

\* pfs.ts:353: the callback of fs.close after a failed write:
\* callback(writeError), whatever the close did
CloseAfterErrorCallback(c) ==
    /\ calls[c].stage = "closeErr"
    /\ Settle(c, "err", calls)
    /\ UNCHANGED <<platform, fsVars, wdVars, winVars, canFlush, nCalls, content>>

\* pfs.ts:341: the callback of fs.writeFile(path, data) without flushing
PlainCallback(c, ok) ==
    /\ calls[c].stage = "plain"
    /\ LET f == FileOf(calls[c].path)
       IN  /\ \E v \in (IF ok THEN AfterWrite(c, f)
                              ELSE AfterFailedWrite(c, f) \cup {content[f]}) :
                 content' = [content EXCEPT ![f] = v]
           /\ Settle(c, IF ok THEN "ok" ELSE "err", Touch(calls, c, f))
    /\ UNCHANGED <<platform, fsVars, wdVars, winVars, canFlush, nCalls>>

\* The ways the fs.*Sync calls of one writeFileSync may end
SyncOutcomes ==
    {"plainOk", "plainFail", "openFail", "writeFail", "syncFail",
     "syncFailCloseFail", "closeFail", "ok"}

\* pfs.ts:372-397, in one step: the call is synchronous
writeFileSync(path, how) ==
    /\ nCalls < MaxCalls
    /\ how \in (IF canFlush THEN SyncOutcomes \ {"plainOk", "plainFail"}
                                ELSE {"plainOk", "plainFail"})
    /\ LET c == nCalls + 1
           f == FileOf(path)
           written == how \in {"plainOk", "syncFail", "syncFailCloseFail", "closeFail", "ok"}
           after == CASE how = "openFail"  -> {content[f]}
                      [] how = "plainFail" -> AfterFailedWrite(c, f) \cup {content[f]}
                      [] how = "writeFail" -> AfterFailedWrite(c, f)
                      [] OTHER                 -> AfterWrite(c, f)
       IN  /\ nCalls' = c
           /\ \E v \in after : content' = [content EXCEPT ![f] = v]
           /\ canFlush' = IF how \in {"syncFail", "syncFailCloseFail"} THEN FALSE ELSE canFlush
           /\ calls' = [(IF how = "openFail" THEN calls ELSE Touch(calls, c, f)) EXCEPT ![c] =
                  [NoCall EXCEPT !.kind = "sync", !.path = path, !.stage = "done",
                     !.flushing = how \notin {"plainOk", "plainFail"},
                     !.synced = how \in {"closeFail", "ok"},
                     !.result = IF how \in {"plainOk", "syncFail", "ok"} THEN "ok" ELSE "err"]]
    /\ UNCHANGED <<platform, fsVars, wdVars, winVars, queues, writeFilePathQueues>>

NextWrite ==
    \/ \E path \in WritePaths : writeFile(path)
    \/ \E path \in WritePaths, how \in SyncOutcomes : writeFileSync(path, how)
    \/ \E c \in CallIds, ok \in BOOLEAN : OpenCallback(c, ok)
    \/ \E c \in CallIds, ok \in BOOLEAN : WriteCallback(c, ok)
    \/ \E c \in CallIds, ok \in BOOLEAN : SyncCallback(c, ok)
    \/ \E c \in CallIds, ok \in BOOLEAN : CloseCallback(c, ok)
    \/ \E c \in CallIds : CloseAfterErrorCallback(c)
    \/ \E c \in CallIds, ok \in BOOLEAN : PlainCallback(c, ok)

----------------------------------------------------------------------------
(* The file system.  A path is the sequence of its names, <<>> the root.   *)
(* fs maps the real path of every existing node to the node: a directory,  *)
(* a file with its data, or a symbolic link with its (absolute) target.    *)

Dir == [kind |-> "dir", target |-> <<>>, data |-> "", mtime |-> 0]

File(d) == [kind |-> "file", target |-> <<>>, data |-> d, mtime |-> 0]

Link(t) == [kind |-> "link", target |-> t, data |-> "", mtime |-> 0]

\* The name under which the volume stores a name: the volumes of Windows
\* and macOS ignore case.
FsName(n) == IF isWindows \/ isMacintosh THEN toLowerCase(n) ELSE n

\* The name an injected fault is keyed by: the last name of the path
NameOf(path) == IF path = <<>> THEN "/" ELSE path[Len(path)]

NoFault == [op |-> "none", name |-> "", code |-> ""]

\* The environment lets fs call o on this path fail
Faulted(o, path) ==
    /\ faulty.op = o
    /\ faulty.name \in {"*", NameOf(path)}

Err(c) == [code |-> c, path |-> <<>>]

\* Path resolution: the real path of rest, resolved from the real directory
\* cur.  follow: a symbolic link in the last name is followed (stat, not
\* lstat).  budget: the symbolic links still allowed before ELOOP.
RECURSIVE Walk(_, _, _, _)
Walk(cur, rest, follow, budget) ==
    IF cur \notin DOMAIN fs THEN Err("ENOENT")
    ELSE IF rest = <<>> THEN [code |-> "", path |-> cur]
    ELSE IF fs[cur].kind # "dir" THEN Err("ENOTDIR")
    ELSE LET next == Append(cur, FsName(Head(rest)))
         IN  IF next \notin DOMAIN fs THEN Err("ENOENT")
             ELSE IF fs[next].kind = "link" /\ (Len(rest) > 1 \/ follow)
             THEN IF budget = 0 THEN Err("ELOOP")
                  ELSE Walk(<<>>, fs[next].target \o Tail(rest), follow, budget - 1)
             ELSE Walk(next, Tail(rest), follow, budget)

\* fs.Stats: the kind of the node and its identity (its real path)
NoStats == [kind |-> "undefined", ino |-> <<>>]

StatsAt(w) ==
    IF w.code # "" THEN [code |-> w.code, stats |-> NoStats]
    ELSE [code |-> "", stats |-> [kind |-> fs[w.path].kind, ino |-> w.path]]

\* fs.promises.lstat
fs_lstat(path) ==
    IF Faulted("lstat", path) THEN [code |-> faulty.code, stats |-> NoStats]
    ELSE StatsAt(Walk(<<>>, path, FALSE, MaxSymlinks))

\* fs.promises.stat
fs_stat(path) ==
    IF Faulted("stat", path) THEN [code |-> faulty.code, stats |-> NoStats]
    ELSE StatsAt(Walk(<<>>, path, TRUE, MaxSymlinks))

\* fs.promises.readlink
fs_readlink(path) ==
    LET w == Walk(<<>>, path, FALSE, MaxSymlinks)
    IN  IF w.code # "" THEN [code |-> w.code, target |-> <<>>]
        ELSE IF fs[w.path].kind # "link" THEN [code |-> "EINVAL", target |-> <<>>]
        ELSE [code |-> "", target |-> fs[w.path].target]

----------------------------------------------------------------------------
(* SymlinkSupport.stat *)

\* IStats (pfs.ts:173-187) or the error the promise rejects with.
\* symbolicLink: "undefined", "dangling" ({dangling: true}) or
\* "notDangling" ({dangling: false}).
Resolved(st, sl) == [ok |-> TRUE, stat |-> st, symbolicLink |-> sl, code |-> ""]

Rejected(c) == [ok |-> FALSE, stat |-> NoStats, symbolicLink |-> "undefined", code |-> c]

\* A plausible bug: the link's own stat is returned for a link whose target exists
SymlinkSupport_stat_LinkStat(path) ==
    LET l == fs_lstat(path)
    IN  IF l.code = "" THEN Resolved(l.stats, IF l.stats.kind = "link" THEN "notDangling" ELSE "undefined")
        ELSE Rejected(l.code)

\* A plausible bug: a missing target is not told from any other stat error
SymlinkSupport_stat_NoDangling(path) ==
    LET l == fs_lstat(path)
        s == fs_stat(path)
    IN  IF l.code = "" /\ l.stats.kind # "link" THEN Resolved(l.stats, "undefined")
        ELSE IF s.code = ""
        THEN Resolved(s.stats, IF l.code = "" /\ l.stats.kind = "link" THEN "notDangling" ELSE "undefined")
        ELSE Rejected(s.code)

\* pfs.ts:195-245
SymlinkSupport_stat(path) ==
    LET l  == fs_lstat(path)           \* lstats is undefined when l.code # ""
        s  == fs_stat(path)
        r  == fs_readlink(path)
        s2 == IF r.code = "" THEN fs_stat(r.target) ELSE [code |-> r.code, stats |-> NoStats]
    IN  IF l.code = "" /\ l.stats.kind # "link" THEN Resolved(l.stats, "undefined")
        ELSE IF s.code = ""
        THEN Resolved(s.stats, IF l.code = "" /\ l.stats.kind = "link" THEN "notDangling" ELSE "undefined")
        ELSE IF s.code = "ENOENT" /\ l.code = ""
        THEN Resolved(l.stats, "dangling")
        ELSE IF isWindows /\ s.code = "EACCES" /\ l.code = ""
        THEN IF s2.code = ""
             THEN Resolved(s2.stats, IF l.stats.kind = "link" THEN "notDangling" ELSE "undefined")
             ELSE IF s2.code = "ENOENT"
             THEN Resolved(l.stats, "dangling")
             ELSE Rejected(s2.code)
        ELSE Rejected(s.code)

----------------------------------------------------------------------------
(* The fs calls that change the file system.  Each gives the error code    *)
(* ("": none) and the file system afterwards.                              *)

Front(path) == SubSeq(path, 1, Len(path) - 1)

Last(path) == path[Len(path)]

IsPrefix(p, q) == Len(p) <= Len(q) /\ SubSeq(q, 1, Len(p)) = p

Suffix(q, n) == SubSeq(q, n + 1, Len(q))

\* The real place a path names, existing or not: its parent directory
\* resolved, its last name taken as it is
Loc(path) ==
    IF path = <<>> THEN [code |-> "", path |-> <<>>]
    ELSE LET w == Walk(<<>>, Front(path), TRUE, MaxSymlinks)
         IN  IF w.code # "" THEN w
             ELSE IF fs[w.path].kind # "dir" THEN Err("ENOTDIR")
             ELSE [code |-> "", path |-> Append(w.path, FsName(Last(path)))]

Without(f, p) == [q \in {x \in DOMAIN f : ~IsPrefix(p, x)} |-> f[q]]

\* fs.promises.rmdir(path, {recursive: true}) and fs.rmdirSync: the node and
\* everything below it; a path that does not exist is no error.
fs_rmdir(path) ==
    LET l == Loc(path)
    IN  IF Faulted("rmdir", path) THEN [code |-> faulty.code, fs |-> fs]
        ELSE IF l.code = "ENOENT" THEN [code |-> "", fs |-> fs]
        ELSE IF l.code # "" THEN [code |-> l.code, fs |-> fs]
        ELSE [code |-> "", fs |-> Without(fs, l.path)]

\* fs.promises.rename; a fault is keyed by the new path
fs_rename(oldPath, newPath) ==
    LET o == Loc(oldPath)
        n == Loc(newPath)
        moved == {n.path \o Suffix(q, Len(o.path)) : q \in {x \in DOMAIN fs : IsPrefix(o.path, x)}}
        kept  == {q \in DOMAIN fs : ~IsPrefix(o.path, q) /\ ~IsPrefix(n.path, q)}
    IN  IF Faulted("rename", newPath) THEN [code |-> faulty.code, fs |-> fs]
        ELSE IF o.code # "" THEN [code |-> o.code, fs |-> fs]
        ELSE IF o.path \notin DOMAIN fs THEN [code |-> "ENOENT", fs |-> fs]
        ELSE IF n.code # "" THEN [code |-> n.code, fs |-> fs]
        ELSE IF o.path = n.path THEN [code |-> "", fs |-> fs]
        ELSE IF IsPrefix(o.path, n.path) THEN [code |-> "EINVAL", fs |-> fs]
        ELSE IF n.path \in DOMAIN fs /\ fs[n.path].kind = "dir" /\ fs[o.path].kind # "dir"
        THEN [code |-> "EISDIR", fs |-> fs]
        ELSE IF n.path \in DOMAIN fs /\ fs[n.path].kind # "dir" /\ fs[o.path].kind = "dir"
        THEN [code |-> "ENOTDIR", fs |-> fs]
        ELSE IF \E q \in DOMAIN fs : IsPrefix(n.path, q) /\ q # n.path
        THEN [code |-> "ENOTEMPTY", fs |-> fs]
        ELSE [code |-> "",
              fs |-> [q \in kept \cup moved |->
                        IF q \in moved THEN fs[o.path \o Suffix(q, Len(n.path))] ELSE fs[q]]]

\* The directories mkdir -p has to make for path: the error code, the real
\* path of the directory and the real paths to create
RECURSIVE MkdirP(_)
MkdirP(path) ==
    IF path = <<>>
    THEN IF <<>> \in DOMAIN fs THEN [code |-> "", real |-> <<>>, new |-> {}]
                               ELSE [code |-> "ENOENT", real |-> <<>>, new |-> {}]
    ELSE LET pr   == MkdirP(Front(path))
             here == Append(pr.real, FsName(Last(path)))
             w    == Walk(<<>>, path, TRUE, MaxSymlinks)
         IN  IF pr.code # "" THEN pr
             ELSE IF here \notin DOMAIN fs THEN [code |-> "", real |-> here, new |-> pr.new \cup {here}]
             ELSE IF fs[here].kind = "dir" THEN [code |-> "", real |-> here, new |-> pr.new]
             ELSE IF fs[here].kind = "link" /\ w.code = "" /\ fs[w.path].kind = "dir"
             THEN [code |-> "", real |-> w.path, new |-> pr.new]
             ELSE [code |-> "EEXIST", real |-> here, new |-> {}]

\* fs.promises.mkdir(path, {recursive: true})
fs_mkdir(path) ==
    LET m == MkdirP(path)
    IN  IF Faulted("mkdir", path) THEN [code |-> faulty.code, fs |-> fs]
        ELSE IF m.code # "" THEN [code |-> m.code, fs |-> fs]
        ELSE [code |-> "", fs |-> [q \in DOMAIN fs \cup m.new |-> IF q \in DOMAIN fs THEN fs[q] ELSE Dir]]

\* The order in which a directory lists its entries
NameOrder == <<"S", "nfd", "d", "f", "l", "s", "s.", "t", "tmp", "u", "x", "z">>

\* fs.readdir: the names in the directory
fs_readdir(path) ==
    LET w == Walk(<<>>, path, TRUE, MaxSymlinks)
    IN  IF Faulted("readdir", path) THEN [code |-> faulty.code, files |-> <<>>]
        ELSE IF w.code # "" THEN [code |-> w.code, files |-> <<>>]
        ELSE IF fs[w.path].kind # "dir" THEN [code |-> "ENOTDIR", files |-> <<>>]
        ELSE [code |-> "",
              files |-> SelectSeq(NameOrder, LAMBDA n : Append(w.path, n) \in DOMAIN fs)]

\* normalizeNFC of vs/base/common/normalization: "nfd" stands for a name in
\* decomposed form, "nfc" for its composed form
normalizeNFC(n) == IF n = "nfd" THEN "nfc" ELSE n

\* A name is in composed form
IsNFC(n) == n # "nfd"

\* A plausible bug: the names are normalized on every platform
handleDirectoryChildren_AllPlatforms(children) ==
    [i \in DOMAIN children |-> normalizeNFC(children[i])]

\* pfs.ts:119-127
handleDirectoryChildren(children) ==
    IF isMacintosh
    THEN [i \in DOMAIN children |-> normalizeNFC(children[i])]
    ELSE children

\* pfs.ts:97-99
readdir(path) ==
    LET r == fs_readdir(path)
    IN  [code |-> r.code, files |-> handleDirectoryChildren(r.files)]

\* pfs.ts:115-117
readdirSync(path) ==
    LET r == fs_readdir(path)
    IN  [code |-> r.code, files |-> handleDirectoryChildren(r.files)]

\* fs.readdir(path, {withFileTypes: true}): the fs.Dirent of every entry,
\* its name and the kind of the entry itself
fs_readdirWithFileTypes(path) ==
    LET r == fs_readdir(path)
        w == Walk(<<>>, path, TRUE, MaxSymlinks)
    IN  [code |-> r.code,
         files |-> [i \in DOMAIN r.files |->
                      [name |-> r.files[i], kind |-> fs[Append(w.path, r.files[i])].kind]]]

\* pfs.ts:101-113
readdirWithFileTypes(path) ==
    LET r == fs_readdirWithFileTypes(path)
    IN  [code |-> r.code,
         files |-> IF isMacintosh
                   THEN [i \in DOMAIN r.files |-> [r.files[i] EXCEPT !.name = normalizeNFC(@)]]
                   ELSE r.files]

\* pfs.ts:508-538: the read stream of source piped to a write stream of
\* target.  The write stream creates the target when it opens it, also when
\* the read stream then fails.
doCopyFile(source, target) ==
    LET r == Walk(<<>>, source, TRUE, MaxSymlinks)
        t == Walk(<<>>, target, TRUE, MaxSymlinks)
        l == IF t.code = "" THEN t ELSE Loc(target)
        put(node) == [q \in DOMAIN fs \cup {l.path} |-> IF q = l.path THEN node ELSE fs[q]]
    IN  IF l.code # "" THEN [code |-> l.code, fs |-> fs]
        ELSE IF l.path \in DOMAIN fs /\ fs[l.path].kind # "file" THEN [code |-> "EISDIR", fs |-> fs]
        ELSE IF r.code # "" THEN [code |-> r.code, fs |-> put(File("empty"))]
        ELSE IF fs[r.path].kind # "file" THEN [code |-> "EISDIR", fs |-> put(File("empty"))]
        ELSE IF Faulted("copyFile", source) THEN [code |-> faulty.code, fs |-> put(File("partial"))]
        ELSE [code |-> "", fs |-> put(File(fs[r.path].data))]

\* isRootOrDriveLetter of vs/base/common/extpath: the root of the file
\* system (on Windows: of a drive)
isRootOrDriveLetter(path) == path = <<>>

\* String.prototype.toLowerCase on a path
PathLower(path) == [i \in DOMAIN path |-> toLowerCase(path[i])]

\* source.endsWith('.')
EndsWithDot(path) == path # <<>> /\ Last(path) = "s."

----------------------------------------------------------------------------
(* The operations on the file system, one call per run *)

NoOp == [name |-> "none", path |-> <<>>, target |-> <<>>, mode |-> ""]

NoOutcome == [status |-> "pending", code |-> "", path |-> <<>>, value |-> Rejected("")]

Settled(status, code, path) ==
    [status |-> status, code |-> code, path |-> path, value |-> Rejected("")]

\* pfs.ts:51, 87
RefuseRoot == "rimraf - will refuse to recursively delete root"

\* pfs.ts:65: join(tmpdir(), generateUuid())
pathInTemp == <<"tmp", "u">>

\* An activation of copy(source, target, handledSources)
Frame(source, target) ==
    [source |-> source, target |-> target, at |-> "start", files |-> <<>>, i |-> 1]

Top == stack[Len(stack)]

SetTop(fr) == [stack EXCEPT ![Len(stack)] = fr]

Env == <<platform, writeVars, fs0, faulty, wdVars, winVars>>

\* A plausible bug: the root is not refused
rimraf_NoRootCheck(path, mode) ==
    IF mode = "UNLINK" THEN "rimrafUnlink" ELSE "rimrafMove"

\* pfs.ts:49-61: what rimraf does first: "reject" (the root is refused),
\* rimrafUnlink or rimrafMove
rimraf(path, mode) ==
    IF isRootOrDriveLetter(path) THEN "reject"
    ELSE IF mode = "UNLINK" THEN "rimrafUnlink"
    ELSE "rimrafMove"

\* pfs.ts:427-443: the mtime of a file is set to now; every error is ignored
updateMtime(path) ==
    LET l == fs_lstat(path)
    IN  IF l.code # "" \/ l.stats.kind \in {"dir", "link"} \/ Faulted("utimes", path)
        THEN fs
        ELSE [fs EXCEPT ![l.stats.ino].mtime = @ + 1]

\* SymlinkSupport.stat(path) called on its own
CallStat(path) ==
    /\ pc = "idle"
    /\ op' = [NoOp EXCEPT !.name = "stat", !.path = path]
    /\ LET r == SymlinkSupport_stat(path)
       IN  outcome' = [status |-> IF r.ok THEN "resolved" ELSE "rejected",
                       code |-> r.code, path |-> path, value |-> r]
    /\ pc' = "done"
    /\ fsLog' = Append(fsLog, <<"stat", path>>)
    /\ UNCHANGED <<Env, fs, stack, handledSources, bg>>

\* The promise of a readdir call settles with listing r
Listed(r, path) ==
    [status |-> IF r.code = "" THEN "resolved" ELSE "rejected",
     code |-> r.code, path |-> path, value |-> [ok |-> r.code = "", files |-> r.files]]

\* pfs.ts:97: readdir(path) called
CallReaddir(path) ==
    /\ pc = "idle"
    /\ op' = [NoOp EXCEPT !.name = "readdir", !.path = path]
    /\ outcome' = Listed(readdir(path), path)
    /\ pc' = "done"
    /\ fsLog' = Append(fsLog, <<"readdir", path>>)
    /\ UNCHANGED <<Env, fs, stack, handledSources, bg>>

\* pfs.ts:115: readdirSync(path) called
CallReaddirSync(path) ==
    /\ pc = "idle"
    /\ op' = [NoOp EXCEPT !.name = "readdirSync", !.path = path]
    /\ outcome' = Listed(readdirSync(path), path)
    /\ pc' = "done"
    /\ fsLog' = Append(fsLog, <<"readdir", path>>)
    /\ UNCHANGED <<Env, fs, stack, handledSources, bg>>

\* pfs.ts:101: readdirWithFileTypes(path) called
CallReaddirWithFileTypes(path) ==
    /\ pc = "idle"
    /\ op' = [NoOp EXCEPT !.name = "readdirWithFileTypes", !.path = path]
    /\ outcome' = Listed(readdirWithFileTypes(path), path)
    /\ pc' = "done"
    /\ fsLog' = Append(fsLog, <<"readdir", path>>)
    /\ UNCHANGED <<Env, fs, stack, handledSources, bg>>

\* pfs.ts:477: copy(source, target) called on its own
CallCopy(source, target) ==
    /\ pc = "idle"
    /\ op' = [NoOp EXCEPT !.name = "copy", !.path = source, !.target = target]
    /\ pc' = "copy"
    /\ stack' = <<Frame(source, target)>>
    /\ handledSources' = {}
    /\ UNCHANGED <<Env, fs, outcome, fsLog, bg>>

\* The innermost copy() returns: its caller goes on; after the outermost
\* one, copy resolves, or move goes on with rimraf(source, MOVE).
CopyReturn ==
    /\ stack' = Front(stack)
    /\ IF Len(stack) > 1
       THEN UNCHANGED <<pc, outcome>>
       ELSE IF op.name = "copy"
       THEN pc' = "done" /\ outcome' = Settled("resolved", "", <<>>)
       ELSE IF rimraf(op.path, "MOVE") = "reject"
       THEN pc' = "done" /\ outcome' = Settled("rejected", RefuseRoot, op.path)
       ELSE pc' = rimraf(op.path, "MOVE") /\ UNCHANGED outcome

\* An error thrown in a copy() rejects every copy() awaiting it, and move
CopyThrow(code, path) ==
    /\ stack' = <<>>
    /\ pc' = "done"
    /\ outcome' = Settled("rejected", code, path)

\* A plausible bug: a dangling link is copied like a file
CopyStart_NoDanglingCheck ==
    /\ pc = "copy" /\ Top.at = "start"
    /\ IF Top.source \in handledSources
       THEN CopyReturn /\ UNCHANGED <<handledSources, fsLog>>
       ELSE /\ handledSources' = handledSources \cup {Top.source}
            /\ fsLog' = Append(fsLog, <<"stat", Top.source>>)
            /\ LET r == SymlinkSupport_stat(Top.source)
               IN  IF ~r.ok THEN CopyThrow(r.code, Top.source)
                   ELSE /\ stack' = SetTop([Top EXCEPT !.at =
                               IF r.stat.kind # "dir" THEN "copyFile" ELSE "mkdir"])
                        /\ UNCHANGED <<pc, outcome>>
    /\ UNCHANGED <<Env, fs, op, bg>>

\* pfs.ts:479-496: the source is handled once; a dangling link is skipped
CopyStart ==
    /\ pc = "copy" /\ Top.at = "start"
    /\ IF Top.source \in handledSources
       THEN CopyReturn /\ UNCHANGED <<handledSources, fsLog>>
       ELSE /\ handledSources' = handledSources \cup {Top.source}
            /\ fsLog' = Append(fsLog, <<"stat", Top.source>>)
            /\ LET r == SymlinkSupport_stat(Top.source)
               IN  IF ~r.ok THEN CopyThrow(r.code, Top.source)
                   ELSE IF r.symbolicLink = "dangling" THEN CopyReturn
                   ELSE /\ stack' = SetTop([Top EXCEPT !.at =
                               IF r.stat.kind # "dir" THEN "copyFile" ELSE "mkdir"])
                        /\ UNCHANGED <<pc, outcome>>
    /\ UNCHANGED <<Env, fs, op, bg>>

\* pfs.ts:493-495: doCopyFile(source, target, mode)
CopyFile ==
    /\ pc = "copy" /\ Top.at = "copyFile"
    /\ LET r == doCopyFile(Top.source, Top.target)
       IN  /\ fs' = r.fs
           /\ IF r.code = "" THEN CopyReturn ELSE CopyThrow(r.code, Top.source)
    /\ fsLog' = Append(fsLog, <<"copyFile", Top.target>>)
    /\ UNCHANGED <<Env, op, handledSources, bg>>

\* pfs.ts:498: the folder is created
CopyMkdir ==
    /\ pc = "copy" /\ Top.at = "mkdir"
    /\ LET r == fs_mkdir(Top.target)
       IN  /\ fs' = r.fs
           /\ IF r.code = ""
              THEN stack' = SetTop([Top EXCEPT !.at = "readdir"]) /\ UNCHANGED <<pc, outcome>>
              ELSE CopyThrow(r.code, Top.target)
    /\ fsLog' = Append(fsLog, <<"mkdir", Top.target>>)
    /\ UNCHANGED <<Env, op, handledSources, bg>>

\* pfs.ts:501
CopyReaddir ==
    /\ pc = "copy" /\ Top.at = "readdir"
    /\ LET r == readdir(Top.source)
       IN  IF r.code = ""
           THEN /\ stack' = SetTop([Top EXCEPT !.at = "loop", !.files = r.files, !.i = 1])
                /\ UNCHANGED <<pc, outcome>>
           ELSE CopyThrow(r.code, Top.source)
    /\ fsLog' = Append(fsLog, <<"readdir", Top.source>>)
    /\ UNCHANGED <<Env, fs, op, handledSources, bg>>

\* pfs.ts:502-505: each file is copied recursively
CopyLoop ==
    /\ pc = "copy" /\ Top.at = "loop"
    /\ IF Top.i <= Len(Top.files)
       THEN /\ stack' = Append(SetTop([Top EXCEPT !.i = @ + 1]),
                               Frame(Append(Top.source, Top.files[Top.i]),
                                     Append(Top.target, Top.files[Top.i])))
            /\ UNCHANGED <<pc, outcome>>
       ELSE CopyReturn
    /\ UNCHANGED <<Env, fs, op, handledSources, fsLog, bg>>

\* rimraf resolved: on its own that is the outcome; in move the mtime
\* update follows
RimrafReturn ==
    IF op.name = "move"
    THEN pc' = "moveMtime" /\ UNCHANGED outcome
    ELSE pc' = "done" /\ outcome' = Settled("resolved", "", <<>>)

\* pfs.ts:49: rimraf(path, mode) called on its own
CallRimraf(path, mode) ==
    /\ pc = "idle"
    /\ op' = [NoOp EXCEPT !.name = "rimraf", !.path = path, !.mode = mode]
    /\ IF rimraf(path, mode) = "reject"
       THEN pc' = "done" /\ outcome' = Settled("rejected", RefuseRoot, path)
       ELSE pc' = rimraf(path, mode) /\ UNCHANGED outcome
    /\ UNCHANGED <<Env, fs, stack, handledSources, fsLog, bg>>

\* A plausible bug: a failed rename rejects rimraf, nothing is deleted in place
RimrafMove_NoFallback ==
    /\ pc = "rimrafMove"
    /\ LET r == fs_rename(op.path, pathInTemp)
       IN  /\ fs' = r.fs
           /\ IF r.code = ""
              THEN bg' = bg \cup {pathInTemp} /\ RimrafReturn
              ELSE pc' = "done" /\ outcome' = Settled("rejected", r.code, op.path)
                   /\ UNCHANGED bg
    /\ fsLog' = Append(fsLog, <<"rename", op.path>>)
    /\ UNCHANGED <<Env, op, stack, handledSources>>

\* pfs.ts:63-73: the rename into the temp directory; when it fails the path
\* is deleted in place, when it succeeds the deletion of the temp path is
\* started and not awaited
RimrafMove ==
    /\ pc = "rimrafMove"
    /\ LET r == fs_rename(op.path, pathInTemp)
       IN  /\ fs' = r.fs
           /\ IF r.code = ""
              THEN bg' = bg \cup {pathInTemp} /\ RimrafReturn
              ELSE pc' = "rimrafUnlink" /\ UNCHANGED <<bg, outcome>>
    /\ fsLog' = Append(fsLog, <<"rename", op.path>>)
    /\ UNCHANGED <<Env, op, stack, handledSources>>

\* pfs.ts:81-83 awaited: rimrafUnlink(path)
RimrafUnlink ==
    /\ pc = "rimrafUnlink"
    /\ LET r == fs_rmdir(op.path)
       IN  /\ fs' = r.fs
           /\ IF r.code = ""
              THEN RimrafReturn
              ELSE pc' = "done" /\ outcome' = Settled("rejected", r.code, op.path)
    /\ fsLog' = Append(fsLog, <<"rmdir", op.path>>)
    /\ UNCHANGED <<Env, op, stack, handledSources, bg>>

\* pfs.ts:73: rimrafUnlink(pathInTemp), its error ignored
BackgroundUnlink ==
    /\ \E p \in bg :
          /\ fs' = fs_rmdir(p).fs
          /\ bg' = bg \ {p}
          /\ fsLog' = Append(fsLog, <<"rmdir", p>>)
    /\ UNCHANGED <<Env, op, pc, stack, handledSources, outcome>>

\* pfs.ts:85-91
rimrafSync(path) ==
    /\ pc = "idle"
    /\ op' = [NoOp EXCEPT !.name = "rimrafSync", !.path = path]
    /\ pc' = "done"
    /\ IF isRootOrDriveLetter(path)
       THEN /\ outcome' = Settled("rejected", RefuseRoot, path)
            /\ UNCHANGED <<fs, fsLog>>
       ELSE LET r == fs_rmdir(path)
            IN  /\ fs' = r.fs
                /\ fsLog' = Append(fsLog, <<"rmdir", path>>)
                /\ outcome' = Settled(IF r.code = "" THEN "resolved" ELSE "rejected", r.code, path)
    /\ UNCHANGED <<Env, stack, handledSources, bg>>

\* A plausible bug: equal paths are not told apart and renamed like any
CallMove_NoSamePathCheck(source, target) ==
    /\ pc = "idle"
    /\ op' = [NoOp EXCEPT !.name = "move", !.path = source, !.target = target]
    /\ pc' = "moveRename" /\ UNCHANGED outcome
    /\ UNCHANGED <<Env, fs, stack, handledSources, fsLog, bg>>

\* pfs.ts:414-417: move(source, target) called
CallMove(source, target) ==
    /\ pc = "idle"
    /\ op' = [NoOp EXCEPT !.name = "move", !.path = source, !.target = target]
    /\ IF source = target
       THEN pc' = "done" /\ outcome' = Settled("resolved", "", <<>>)
       ELSE pc' = "moveRename" /\ UNCHANGED outcome
    /\ UNCHANGED <<Env, fs, stack, handledSources, fsLog, bg>>

\* A plausible bug: the fallback deletes the source before it copies it
MoveRename_DeleteFirst ==
    /\ pc = "moveRename"
    /\ LET r == fs_rename(op.path, op.target)
       IN  IF r.code = ""
           THEN /\ fs' = r.fs /\ pc' = "moveMtime"
                /\ UNCHANGED <<stack, handledSources, outcome>>
           ELSE IF (PathLower(op.path) # PathLower(op.target) /\ r.code = "EXDEV")
                   \/ EndsWithDot(op.path)
           THEN /\ fs' = fs_rmdir(op.path).fs
                /\ pc' = "copy"
                /\ stack' = <<Frame(op.path, op.target)>>
                /\ handledSources' = {}
                /\ UNCHANGED outcome
           ELSE /\ pc' = "done" /\ outcome' = Settled("rejected", r.code, op.path)
                /\ UNCHANGED <<fs, stack, handledSources>>
    /\ fsLog' = Append(fsLog, <<"rename", op.path>>)
    /\ UNCHANGED <<Env, op, bg>>

\* pfs.ts:445-465: the rename; on EXDEV for paths that differ ignoring case,
\* or for a source that ends with a dot, the copy starts instead
MoveRename ==
    /\ pc = "moveRename"
    /\ LET r == fs_rename(op.path, op.target)
       IN  IF r.code = ""
           THEN /\ fs' = r.fs /\ pc' = "moveMtime"
                /\ UNCHANGED <<stack, handledSources, outcome>>
           ELSE IF (PathLower(op.path) # PathLower(op.target) /\ r.code = "EXDEV")
                   \/ EndsWithDot(op.path)
           THEN /\ pc' = "copy"
                /\ stack' = <<Frame(op.path, op.target)>>
                /\ handledSources' = {}
                /\ UNCHANGED <<fs, outcome>>
           ELSE /\ pc' = "done" /\ outcome' = Settled("rejected", r.code, op.path)
                /\ UNCHANGED <<fs, stack, handledSources>>
    /\ fsLog' = Append(fsLog, <<"rename", op.path>>)
    /\ UNCHANGED <<Env, op, bg>>

\* pfs.ts:447, 461: updateMtime(target), after which move resolves
MoveMtime ==
    /\ pc = "moveMtime"
    /\ fs' = updateMtime(op.target)
    /\ fsLog' = Append(fsLog, <<"utimes", op.target>>)
    /\ pc' = "done" /\ outcome' = Settled("resolved", "", <<>>)
    /\ UNCHANGED <<Env, op, stack, handledSources, bg>>

----------------------------------------------------------------------------
(* whenDeleted *)

\* fs.access(path): the error code, "" when the path is accessible
fs_access(path) ==
    IF Faulted("access", path) THEN faulty.code
    ELSE Walk(<<>>, path, TRUE, MaxSymlinks).code

\* The fs.access calls issued so far
Polls == Cardinality({i \in DOMAIN fsLog : fsLog[i][1] = "access"})

NotWhenDeleted == <<platform, writeVars, winVars, fs0, faulty, stack, handledSources, bg>>

\* pfs.ts:146-151: whenDeleted(path) called: the interval is set
whenDeleted(path) ==
    /\ pc = "idle"
    /\ op' = [NoOp EXCEPT !.name = "whenDeleted", !.path = path]
    /\ pc' = "whenDeleted"
    /\ interval' = "set"
    /\ running' = FALSE
    /\ UNCHANGED <<NotWhenDeleted, fs, outcome, fsLog>>

\* pfs.ts:151-163: the callback of setInterval, every second until the
\* interval is cleared
IntervalCallback ==
    /\ interval = "set"
    /\ Polls < MaxPolls \/ fs_access(op.path) # ""
    /\ IF ~running
       THEN /\ running' = TRUE
            /\ fsLog' = Append(fsLog, <<"access", op.path>>)
       ELSE UNCHANGED <<running, fsLog>>
    /\ UNCHANGED <<NotWhenDeleted, fs, op, pc, outcome, interval>>

\* A plausible bug: the interval is not cleared when the promise resolves
AccessCallback_KeepPolling ==
    /\ running
    /\ running' = FALSE
    /\ IF fs_access(op.path) # ""
       THEN /\ outcome' = Settled("resolved", "", <<>>)
            /\ pc' = "done"
            /\ fsLog' = Append(fsLog, <<"err", op.path>>)
       ELSE /\ fsLog' = Append(fsLog, <<"ok", op.path>>)
            /\ UNCHANGED <<pc, outcome>>
    /\ UNCHANGED <<NotWhenDeleted, fs, op, interval>>

\* pfs.ts:154-161: the callback of fs.access
AccessCallback ==
    /\ running
    /\ running' = FALSE
    /\ IF fs_access(op.path) # ""
       THEN /\ interval' = "cleared"
            /\ outcome' = Settled("resolved", "", <<>>)
            /\ pc' = "done"
            /\ fsLog' = Append(fsLog, <<"err", op.path>>)
       ELSE /\ fsLog' = Append(fsLog, <<"ok", op.path>>)
            /\ UNCHANGED <<pc, outcome, interval>>
    /\ UNCHANGED <<NotWhenDeleted, fs, op>>

\* Another process deletes the path whenDeleted waits for
EnvUnlink ==
    /\ pc = "whenDeleted"
    /\ Loc(op.path).path \in DOMAIN fs
    /\ fs' = Without(fs, Loc(op.path).path)
    /\ UNCHANGED <<NotWhenDeleted, wdVars, op, pc, outcome, fsLog>>

\* Another process creates the path again
EnvCreate ==
    /\ pc = "whenDeleted"
    /\ Polls < MaxPolls
    /\ Loc(op.path).path \notin DOMAIN fs
    /\ fs' = fs @@ (Loc(op.path).path :> File("d1"))
    /\ UNCHANGED <<NotWhenDeleted, wdVars, op, pc, outcome, fsLog>>

----------------------------------------------------------------------------
(* CodeWindow of src/vs/platform/windows/electron-main/windowImpl.ts: the   *)
(* ready state, load, send and the native fullscreen transitions.  The      *)
(* calls of the window's users may follow each other inside one job of the  *)
(* event loop; the events of Electron and the timers are jobs of their own  *)
(* and start when the microtask queue is empty.                             *)

\* load() calls made in one run
MaxLoads == 2

\* Messages handed to send, sendWhenReady and ready() by their callers
MaxTraffic == 2

\* setFullScreen calls made in one run
MaxRequests == 2

Channels == {"vscode:runAction"}

\* windowImpl.ts:725, 1284
EnterFullScreen == "vscode:enterFullScreen"

\* windowImpl.ts:729, 1284
LeaveFullScreen == "vscode:leaveFullScreen"

msgVars == <<sent, warnings, promises, whenReadyCallbacks, microtasks>>

loadVars == <<config, pendingLoadConfig, nLoads, loading>>

fullScreenVars ==
    <<transientIsNativeFullScreen, joinNativeFullScreenTransition, requests,
      nativeFullScreen, nativeQueue>>

destroyVars == <<destroying, windowLog>>

NotWindow == <<platform, writeVars, fsVars, wdVars>>

\* windowImpl.ts:884-885: no destroyWindow call was made.  workspace is the
\* constant of line 885 and config what line 905 finds in _config.
NoDestroy ==
    [pc |-> "idle", reopen |-> FALSE, skipRestoreEditors |-> FALSE,
     workspace |-> "undefined", config |-> 0, result |-> "none"]

\* The window after its constructor ran, but for the state of the native window
InitWindowFields ==
    /\ win = "live"
    /\ readyState = "NONE"
    /\ whenReadyCallbacks = <<>>
    /\ promises = <<>>
    /\ microtasks = <<>>
    /\ config = 0 /\ pendingLoadConfig = 0 /\ nLoads = 0 /\ loading = {}
    /\ sent = <<>> /\ warnings = 0
    /\ transientIsNativeFullScreen = "undefined"
    /\ joinNativeFullScreenTransition = 0
    /\ requests = <<>>
    /\ nativeQueue = <<>>
    /\ destroying = NoDestroy
    /\ windowLog = <<>>

\* The window after its constructor ran, not in fullscreen
InitWindow == InitWindowFields /\ nativeFullScreen = FALSE

Range(seq) == {seq[i] : i \in DOMAIN seq}

Reverse(seq) == [i \in DOMAIN seq |-> seq[Len(seq) + 1 - i]]

Occurrences(seq, x) == Cardinality({i \in DOMAIN seq : seq[i] = x})

BoolStr(b) == IF b THEN "true" ELSE "false"

\* windowImpl.ts:664-666
isReady == readyState = "READY"

\* windowImpl.ts:365-375
isFullScreen ==
    IF isMacintosh /\ transientIsNativeFullScreen # "undefined"
    THEN transientIsNativeFullScreen = "true"
    ELSE win # "null" /\ nativeFullScreen

\* The part of the state that send, ready and sendWhenReady work on
Messaging ==
    [sent |-> sent, warnings |-> warnings, promises |-> promises,
     whenReadyCallbacks |-> whenReadyCallbacks, microtasks |-> microtasks]

Apply(m) ==
    /\ sent' = m.sent
    /\ warnings' = m.warnings
    /\ promises' = m.promises
    /\ whenReadyCallbacks' = m.whenReadyCallbacks
    /\ microtasks' = m.microtasks

\* A promise reaction in the microtask queue: the then callback of promise
\* id, or the rest of the async function of fullscreen request id
Reaction(kind, id) == [kind |-> kind, id |-> id]

\* A plausible bug: the message is sent whatever the state of the window
send_Unchecked(m, channel, via, p, throws) ==
    IF win = "null" THEN m
    ELSE [m EXCEPT !.sent = Append(@, [channel |-> channel, via |-> via, promise |-> p,
                                       readyState |-> readyState, win |-> win,
                                       threw |-> throws]),
                   !.warnings = IF throws THEN @ + 1 ELSE @]

\* windowImpl.ts:1381-1394.  via: who calls send: "send" (a user of the
\* window), "sendWhenReady" or "then" (the then callback of promise p);
\* throws: webContents.send throws.
send(m, channel, via, p, throws) ==
    IF win = "null" THEN m
    ELSE IF win \in {"destroyed", "contentsDestroyed"}
    THEN [m EXCEPT !.warnings = @ + 1]
    ELSE [m EXCEPT !.sent = Append(@, [channel |-> channel, via |-> via, promise |-> p,
                                       readyState |-> readyState, win |-> win,
                                       threw |-> throws]),
                   !.warnings = IF throws THEN @ + 1 ELSE @]

\* windowImpl.ts:654-662: ready().  channel: the message the caller's then
\* callback sends ("": the caller is not sendWhenReady).
ready(m, channel) ==
    IF isReady
    THEN [m EXCEPT !.promises = Append(@, [state |-> "resolved", invoked |-> 1,
                                           channel |-> channel]),
                   !.microtasks = IF channel # ""
                                  THEN Append(@, Reaction("then", Len(m.promises) + 1))
                                  ELSE @]
    ELSE [m EXCEPT !.promises = Append(@, [state |-> "pending", invoked |-> 0,
                                           channel |-> channel]),
                   !.whenReadyCallbacks = Append(@, Len(m.promises) + 1)]

\* windowImpl.ts:1369-1379
sendWhenReady(m, channel, throws) ==
    IF isReady
    THEN send(m, channel, "sendWhenReady", 0, throws)
    ELSE ready(m, channel)

\* How many messages and ready() calls the window got so far: the promises,
\* the messages sent at once, and those dropped with a warning
Traffic ==
    Len(promises) + Cardinality({i \in DOMAIN sent : sent[i].via # "then"})
                  + (warnings - Cardinality({i \in DOMAIN sent : sent[i].threw}))

\* send(channel) called
CallSend(channel) ==
    /\ Traffic < MaxTraffic
    /\ \E throws \in BOOLEAN : Apply(send(Messaging, channel, "send", 0, throws))
    /\ UNCHANGED <<NotWindow, destroyVars, win, readyState, loadVars, fullScreenVars>>

\* sendWhenReady(channel, token) called
CallSendWhenReady(channel) ==
    /\ Traffic < MaxTraffic
    /\ \E throws \in BOOLEAN : Apply(sendWhenReady(Messaging, channel, throws))
    /\ UNCHANGED <<NotWindow, destroyVars, win, readyState, loadVars, fullScreenVars>>

\* ready() called
CallReady ==
    /\ Traffic < MaxTraffic
    /\ Apply(ready(Messaging, ""))
    /\ UNCHANGED <<NotWindow, destroyVars, win, readyState, loadVars, fullScreenVars>>

\* A plausible bug: the callbacks are called and left in the array
setReady_KeepCallbacks ==
    /\ readyState' = "READY"
    /\ promises' = [p \in DOMAIN promises |->
                      IF p \in Range(whenReadyCallbacks)
                      THEN [promises[p] EXCEPT !.state = "resolved",
                                               !.invoked = @ + Occurrences(whenReadyCallbacks, p)]
                      ELSE promises[p]]
    /\ microtasks' = microtasks \o
          SelectSeq([i \in DOMAIN whenReadyCallbacks |->
                        Reaction("then", Reverse(whenReadyCallbacks)[i])],
                    LAMBDA t : promises[t.id].channel # "" /\ promises[t.id].state = "pending")
    /\ UNCHANGED <<NotWindow, destroyVars, win, whenReadyCallbacks, sent, warnings, loadVars, fullScreenVars>>

\* windowImpl.ts:639-651: the callbacks are popped, the last one first; a
\* resolved promise queues the then callback it has
setReady ==
    /\ readyState' = "READY"
    /\ whenReadyCallbacks' = <<>>
    /\ promises' = [p \in DOMAIN promises |->
                      IF p \in Range(whenReadyCallbacks)
                      THEN [promises[p] EXCEPT !.state = "resolved",
                                               !.invoked = @ + Occurrences(whenReadyCallbacks, p)]
                      ELSE promises[p]]
    /\ microtasks' = microtasks \o
          SelectSeq([i \in DOMAIN whenReadyCallbacks |->
                        Reaction("then", Reverse(whenReadyCallbacks)[i])],
                    LAMBDA t : promises[t.id].channel # "" /\ promises[t.id].state = "pending")
    /\ UNCHANGED <<NotWindow, destroyVars, win, sent, warnings, loadVars, fullScreenVars>>

\* windowImpl.ts:1373-1377: the then callback of sendWhenReady
ThenCallback ==
    /\ microtasks # <<>> /\ Head(microtasks).kind = "then"
    /\ \E isCancellationRequested \in BOOLEAN, throws \in BOOLEAN :
          LET p == Head(microtasks).id
              m == [Messaging EXCEPT !.microtasks = Tail(@)]
          IN  Apply(IF isCancellationRequested THEN m
                    ELSE send(m, promises[p].channel, "then", p, throws))
    /\ UNCHANGED <<NotWindow, destroyVars, win, readyState, loadVars, fullScreenVars>>

\* A plausible bug: every load associates the configuration at once
load_AssociateAtOnce ==
    /\ win = "live" /\ nLoads < MaxLoads
    /\ nLoads' = nLoads + 1
    /\ config' = nLoads + 1
    /\ UNCHANGED pendingLoadConfig
    /\ readyState' = "NAVIGATING"
    /\ loading' = loading \cup {nLoads + 1}
    /\ UNCHANGED <<NotWindow, destroyVars, win, msgVars, fullScreenVars>>

\* windowImpl.ts:988-1050: load(configuration); the configuration of the
\* n-th call is n
load ==
    /\ win = "live" /\ nLoads < MaxLoads
    /\ nLoads' = nLoads + 1
    /\ IF readyState = "NONE"
       THEN config' = nLoads + 1 /\ UNCHANGED pendingLoadConfig
       ELSE pendingLoadConfig' = nLoads + 1 /\ UNCHANGED config
    /\ readyState' = "NAVIGATING"
    /\ loading' = loading \cup {nLoads + 1}
    /\ UNCHANGED <<NotWindow, destroyVars, win, msgVars, fullScreenVars>>

\* windowImpl.ts:700-708: the did-finish-load event, of the navigation of
\* load l or of one it replaced
DidFinishLoad(l) ==
    /\ win = "live" /\ microtasks = <<>>
    /\ l \in loading
    /\ loading' = {k \in loading : k > l}
    /\ IF pendingLoadConfig # 0
       THEN config' = pendingLoadConfig /\ pendingLoadConfig' = 0
       ELSE UNCHANGED <<config, pendingLoadConfig>>
    /\ UNCHANGED <<NotWindow, destroyVars, win, readyState, nLoads, msgVars, fullScreenVars>>

\* windowImpl.ts:688, 1017-1020: the navigation of load l is vetoed or
\* fails (did-fail-load): no did-finish-load for it
LoadVetoed(l) ==
    /\ win = "live" /\ microtasks = <<>>
    /\ l \in loading
    /\ loading' = loading \ {l}
    /\ UNCHANGED <<NotWindow, destroyVars, win, readyState, config, pendingLoadConfig, nLoads,
                   msgVars, fullScreenVars>>

\* The web contents of the window are destroyed
WebContentsDestroyed ==
    /\ win = "live" /\ microtasks = <<>>
    /\ win' = "contentsDestroyed"
    /\ UNCHANGED <<NotWindow, destroyVars, readyState, loadVars, msgVars, fullScreenVars>>

\* The BrowserWindow is destroyed
WinDestroyed ==
    /\ win \in {"live", "contentsDestroyed"} /\ microtasks = <<>>
    /\ win' = "destroyed"
    /\ UNCHANGED <<NotWindow, destroyVars, readyState, loadVars, msgVars, fullScreenVars>>

\* windowImpl.ts:121-125, 452-456: the closed event: dispose()
Closed ==
    /\ win = "destroyed" /\ microtasks = <<>>
    /\ win' = "null"
    /\ UNCHANGED <<NotWindow, destroyVars, readyState, loadVars, msgVars, fullScreenVars>>

\* The state the native window is in once its transitions are through
NativeTarget ==
    IF nativeQueue = <<>> THEN nativeFullScreen
    ELSE requests[nativeQueue[Len(nativeQueue)]].fullscreen

\* windowImpl.ts:1280-1291, 354-362, 377-433: setFullScreen with native
\* fullscreen: doSetNativeFullScreen, win.setFullScreen, sendWhenReady
setFullScreen(fullscreen, fromRestore) ==
    /\ win \in {"live", "null"}
    /\ Len(requests) < MaxRequests
    /\ requests' = Append(requests,
          [fullscreen |-> fullscreen, fromRestore |-> fromRestore,
           race  |-> IF isMacintosh THEN "pending" ELSE "none",
           timer |-> IF isMacintosh THEN "armed" ELSE "none"])
    /\ IF isMacintosh
       THEN /\ transientIsNativeFullScreen' = BoolStr(fullscreen)
            /\ joinNativeFullScreenTransition' = Len(requests) + 1
       ELSE UNCHANGED <<transientIsNativeFullScreen, joinNativeFullScreenTransition>>
    /\ IF win = "live" /\ fullscreen # NativeTarget
       THEN nativeQueue' = Append(nativeQueue, Len(requests) + 1)
       ELSE UNCHANGED nativeQueue
    /\ \E throws \in BOOLEAN :
          Apply(sendWhenReady(Messaging, IF fullscreen THEN EnterFullScreen
                                                       ELSE LeaveFullScreen, throws))
    /\ UNCHANGED <<NotWindow, destroyVars, win, readyState, loadVars, nativeFullScreen>>

\* DeferredPromise.complete of vs/base/common/async on the deferred promise
\* of request j (0: undefined): it settles the promise that is not settled
Completes(j) == j # 0 /\ requests[j].race = "pending"

\* windowImpl.ts:130-131, 199-207, 724-730: the native transition at the
\* head of the queue finishes and its enter-full-screen or leave-full-screen
\* event arrives: the deferred promise at hand is completed (macOS), the
\* message is sent when ready
TransitionDone ==
    /\ win = "live" /\ microtasks = <<>>
    /\ nativeQueue # <<>>
    /\ nativeFullScreen' = requests[Head(nativeQueue)].fullscreen
    /\ nativeQueue' = Tail(nativeQueue)
    /\ LET j == joinNativeFullScreenTransition
           completes == isMacintosh /\ Completes(j)
           m == IF completes
                THEN [Messaging EXCEPT !.microtasks = Append(@, Reaction("transition", j))]
                ELSE Messaging
       IN  /\ requests' = IF completes
                          THEN [requests EXCEPT ![j].race = "transitioned"]
                          ELSE requests
           /\ \E throws \in BOOLEAN :
                 Apply(sendWhenReady(m, IF requests[Head(nativeQueue)].fullscreen
                                        THEN EnterFullScreen ELSE LeaveFullScreen, throws))
    /\ UNCHANGED <<NotWindow, destroyVars, win, readyState, loadVars,
                   transientIsNativeFullScreen, joinNativeFullScreenTransition>>

\* windowImpl.ts:399-402: timeout(10000) of request r elapses
TransitionTimeout(r) ==
    /\ microtasks = <<>>
    /\ r \in DOMAIN requests /\ requests[r].timer = "armed"
    /\ requests' = [requests EXCEPT ![r].timer = "fired",
                                    ![r].race = IF @ = "pending" THEN "timedOut" ELSE @]
    /\ microtasks' = IF requests[r].race = "pending"
                     THEN Append(microtasks, Reaction("transition", r))
                     ELSE microtasks
    /\ UNCHANGED <<NotWindow, destroyVars, win, readyState, loadVars, sent, warnings, promises,
                   whenReadyCallbacks, transientIsNativeFullScreen,
                   joinNativeFullScreenTransition, nativeFullScreen, nativeQueue>>

\* windowImpl.ts:404-429: the async function of doSetNativeFullScreen goes
\* on after the race
TransitionContinuation ==
    /\ microtasks # <<>> /\ Head(microtasks).kind = "transition"
    /\ LET r == Head(microtasks).id
           m == [Messaging EXCEPT !.microtasks = Tail(@)]
       IN  IF joinNativeFullScreenTransition # r
           THEN /\ Apply(m)
                /\ UNCHANGED <<transientIsNativeFullScreen, joinNativeFullScreenTransition>>
           ELSE /\ transientIsNativeFullScreen' = "undefined"
                /\ joinNativeFullScreenTransition' = 0
                /\ IF /\ requests[r].race = "timedOut"
                      /\ requests[r].fullscreen /\ requests[r].fromRestore
                      /\ win # "null" /\ ~nativeFullScreen
                   THEN \E throws \in BOOLEAN :
                           Apply(sendWhenReady(m, LeaveFullScreen, throws))
                   ELSE Apply(m)
    /\ UNCHANGED <<NotWindow, destroyVars, win, readyState, loadVars, requests,
                   nativeFullScreen, nativeQueue>>

----------------------------------------------------------------------------
(* destroyWindow (windowImpl.ts:884-938).  windowLog holds the calls it    *)
(* makes, in order: "init", "delete", "close" (the workspace storage),     *)
(* "error" (logService.error), "fire" (_onDidDestroy.fire), "open"         *)
(* (windowsMainService.open), "opened" / "openFailed" (how that promise    *)
(* settled), "focus" (window.focus) and "destroy" (_win.destroy).          *)

\* windowImpl.ts:885: what _config?.workspace may hold
Workspaces ==
    IF config = 0 THEN {"undefined"} ELSE {"undefined", "folder", "workspace"}

\* windowImpl.ts:931-936: the finally block, and the promise of
\* destroyWindow settles
Finally(d, log, result) ==
    /\ destroying' = [d EXCEPT !.pc = "done", !.result = result]
    /\ IF win # "null"
       THEN windowLog' = Append(log, "destroy") /\ win' = "destroyed"
       ELSE windowLog' = log /\ UNCHANGED win

\* windowImpl.ts:899-929: from the fire of onDidDestroy to the await of
\* windowsMainService.open, or to the end when no window is to be opened
FireAndReopen(d, log) ==
    LET fired == Append(log, "fire")
        e == [d EXCEPT !.config = config]
    IN  IF e.reopen /\ e.config # 0
        THEN /\ destroying' = [e EXCEPT !.pc = "open"]
             /\ windowLog' = Append(fired, "open")
             /\ UNCHANGED win
        ELSE Finally(e, fired, "resolved")

\* windowImpl.ts:884-893: destroyWindow is called, after a window error of
\* the window; throws: storageMainService.workspaceStorage throws
CallDestroyWindow(reopen, skipRestoreEditors, workspace, throws) ==
    /\ destroying.pc = "idle" /\ win = "live"
    /\ workspace \in Workspaces
    /\ LET d == [destroying EXCEPT !.reopen = reopen,
                                   !.skipRestoreEditors = skipRestoreEditors,
                                   !.workspace = workspace]
       IN  IF skipRestoreEditors /\ workspace # "undefined"
           THEN IF throws
                THEN FireAndReopen(d, Append(windowLog, "error"))
                ELSE /\ destroying' = [d EXCEPT !.pc = "init"]
                     /\ windowLog' = Append(windowLog, "init")
                     /\ UNCHANGED win
           ELSE ~throws /\ FireAndReopen(d, windowLog)
    /\ UNCHANGED <<NotWindow, readyState, loadVars, msgVars, fullScreenVars>>

\* windowImpl.ts:892-897: workspaceStorage.init() settles; ok: delete goes
\* through and close() is called
StorageInitSettled(ok) ==
    /\ destroying.pc = "init"
    /\ IF ok
       THEN /\ destroying' = [destroying EXCEPT !.pc = "close"]
            /\ windowLog' = windowLog \o <<"delete", "close">>
            /\ UNCHANGED win
       ELSE FireAndReopen(destroying, Append(windowLog, "error"))
    /\ UNCHANGED <<NotWindow, readyState, loadVars, msgVars, fullScreenVars>>

\* windowImpl.ts:894-897: workspaceStorage.close() settles
StorageCloseSettled(ok) ==
    /\ destroying.pc = "close"
    /\ FireAndReopen(destroying,
                     IF ok THEN windowLog ELSE Append(windowLog, "error"))
    /\ UNCHANGED <<NotWindow, readyState, loadVars, msgVars, fullScreenVars>>

\* How windowsMainService.open and window?.focus() may end: a window that
\* takes the focus, no window, a window whose focus() throws, a rejection
OpenOutcomes == {"window", "none", "focusThrows", "rejected"}

\* A plausible bug: the window is destroyed only when the new one opened
OpenSettled_NoFinally(how) ==
    /\ destroying.pc = "open"
    /\ how \in OpenOutcomes
    /\ IF how = "rejected"
       THEN /\ destroying' = [destroying EXCEPT !.pc = "done", !.result = "rejected"]
            /\ windowLog' = Append(windowLog, "openFailed")
            /\ UNCHANGED win
       ELSE Finally(destroying,
                    windowLog \o (IF how = "none" THEN <<"opened">>
                                                  ELSE <<"opened", "focus">>),
                    IF how = "focusThrows" THEN "rejected" ELSE "resolved")
    /\ UNCHANGED <<NotWindow, readyState, loadVars, msgVars, fullScreenVars>>

\* windowImpl.ts:918-936: the promise of windowsMainService.open settles
OpenSettled(how) ==
    /\ destroying.pc = "open"
    /\ how \in OpenOutcomes
    /\ IF how = "rejected"
       THEN Finally(destroying, Append(windowLog, "openFailed"), "rejected")
       ELSE Finally(destroying,
                    windowLog \o (IF how = "none" THEN <<"opened">>
                                                  ELSE <<"opened", "focus">>),
                    IF how = "focusThrows" THEN "rejected" ELSE "resolved")
    /\ UNCHANGED <<NotWindow, readyState, loadVars, msgVars, fullScreenVars>>

----------------------------------------------------------------------------
(* The file systems and faults the operations are run on *)

Base == (<<>> :> Dir) @@ (<<"tmp">> :> Dir)

\* A source folder with a file, a symbolic link to t and another file
Tree(t) ==
    Base @@ (<<"s">> :> Dir) @@ (<<"s", "f">> :> File("d1"))
         @@ (<<"s", "l">> :> Link(t)) @@ (<<"s", "z">> :> File("d2"))

\* A folder with a name stored in decomposed form, as macOS volumes do
Listing ==
    Base @@ (<<"d">> :> Dir) @@ (<<"d", "nfd">> :> File("d1"))
         @@ (<<"d", "f">> :> File("d2")) @@ (<<"d", "t">> :> Dir)
         @@ (<<"d", "l">> :> Link(<<"d", "f">>))

FsConfigs ==
    { Base,                                   \* no source
      Listing,
      Base @@ (<<"s">> :> File("d1")),        \* the source is a file
      Base @@ (<<"s">> :> Link(<<"x">>)),     \* the source is a dangling link
      Tree(<<"x">>),                          \* a dangling link in the folder
      Tree(<<"s">>),                          \* a link to its own folder
      Tree(<<"s", "f">>) }                    \* a link to a file

Fault(o, n, c) == [op |-> o, name |-> n, code |-> c]

FaultConfigs ==
    {NoFault}
    \cup {Fault("lstat", n, "EIO") : n \in {"s", "l"}}
    \cup {Fault("stat", n, c) : n \in {"s", "l", "*"}, c \in {"EACCES", "EIO"}}
    \cup {Fault("rename", n, c) : n \in {"t", "S", "u", "*"}, c \in {"EXDEV", "EPERM"}}
    \cup {Fault("mkdir", n, "EACCES") : n \in {"t", "l"}}
    \cup {Fault("readdir", n, "EACCES") : n \in {"s", "l", "d"}}
    \cup {Fault("copyFile", n, "EIO") : n \in {"s", "f", "z"}}
    \cup {Fault("rmdir", n, "EPERM") : n \in {"s", "u"}}
    \cup {Fault("rmdir", "s", "ENOENT")}
    \cup {Fault("utimes", "t", "EPERM")}

StatPaths == {<<"s">>, <<"s", "f">>, <<"s", "l">>, <<"s", "l", "l">>, <<"x">>}

MoveSources == {<<"s">>, <<"s.">>}

MoveTargets == {<<"s">>, <<"S">>, <<"t">>}

RimrafPaths == {<<>>, <<"s">>}

ReaddirPaths == {<<"d">>, <<"s">>, <<"d", "f">>}

InitIdle ==
    /\ op = NoOp
    /\ pc = "idle"
    /\ stack = <<>>
    /\ handledSources = {}
    /\ outcome = NoOutcome
    /\ fsLog = <<>>
    /\ bg = {}
    /\ interval = "none"
    /\ running = FALSE

----------------------------------------------------------------------------
(* Specifications *)

\* The write queue, writeFile and writeFileSync
Init ==
    /\ platform \in Platforms
    /\ InitWrite
    /\ fs = Base /\ fs0 = fs /\ faulty = NoFault
    /\ InitIdle
    /\ InitWindow

Next == NextWrite

Spec == Init /\ [][Next]_vars

\* stat, copy, move and rimraf on the file systems of FsConfigs
InitFs ==
    /\ platform \in Platforms
    /\ InitWrite
    /\ fs \in FsConfigs /\ fs0 = fs /\ faulty \in FaultConfigs
    /\ InitIdle
    /\ InitWindow

NextFs ==
    \/ \E path \in StatPaths : CallStat(path)
    \/ CallCopy(<<"s">>, <<"t">>)
    \/ CopyStart
    \/ CopyFile
    \/ CopyMkdir
    \/ CopyReaddir
    \/ CopyLoop
    \/ \E source \in MoveSources, target \in MoveTargets : CallMove(source, target)
    \/ MoveRename
    \/ MoveMtime
    \/ \E path \in RimrafPaths, mode \in {"UNLINK", "MOVE"} : CallRimraf(path, mode)
    \/ RimrafMove
    \/ RimrafUnlink
    \/ BackgroundUnlink
    \/ \E path \in RimrafPaths : rimrafSync(path)
    \/ \E path \in ReaddirPaths : CallReaddir(path)
    \/ \E path \in ReaddirPaths : CallReaddirSync(path)
    \/ \E path \in ReaddirPaths : CallReaddirWithFileTypes(path)

SpecFs == InitFs /\ [][NextFs]_vars

\* whenDeleted on a wait marker file that other processes delete and create
Marker == Base @@ (<<"w">> :> File("d1"))

InitWhenDeleted ==
    /\ platform \in Platforms
    /\ InitWrite
    /\ fs \in {Base, Marker} /\ fs0 = fs
    /\ faulty \in {NoFault, Fault("access", "w", "EACCES")}
    /\ InitIdle
    /\ InitWindow

NextWhenDeleted ==
    \/ whenDeleted(<<"w">>)
    \/ IntervalCallback
    \/ AccessCallback
    \/ EnvUnlink
    \/ EnvCreate

\* The timer fires and fs.access calls back as long as the process runs
SpecWhenDeleted ==
    /\ InitWhenDeleted /\ [][NextWhenDeleted]_vars
    /\ WF_vars(IntervalCallback) /\ WF_vars(AccessCallback)

\* The window: its users' calls, the events of Electron and the timers
InitWindowRun ==
    /\ platform \in Platforms
    /\ InitWrite
    /\ fs = Base /\ fs0 = fs /\ faulty = NoFault
    /\ InitIdle
    /\ InitWindow

\* Messages, readiness and loads
NextWindow ==
    \/ \E channel \in Channels : CallSend(channel)
    \/ \E channel \in Channels : CallSendWhenReady(channel)
    \/ CallReady
    \/ setReady
    \/ ThenCallback
    \/ load
    \/ \E l \in 1..MaxLoads : DidFinishLoad(l)
    \/ \E l \in 1..MaxLoads : LoadVetoed(l)
    \/ WebContentsDestroyed
    \/ WinDestroyed
    \/ Closed

SpecWindow == InitWindowRun /\ [][NextWindow]_vars

\* The native fullscreen transitions
NextFullScreen ==
    \/ \E fullscreen \in BOOLEAN, fromRestore \in BOOLEAN : setFullScreen(fullscreen, fromRestore)
    \/ TransitionDone
    \/ \E r \in 1..MaxRequests : TransitionTimeout(r)
    \/ TransitionContinuation
    \/ setReady
    \/ ThenCallback

\* A window may open in fullscreen (windowImpl.ts:411-416)
InitFullScreen ==
    /\ platform \in Platforms
    /\ InitWrite
    /\ fs = Base /\ fs0 = fs /\ faulty = NoFault
    /\ InitIdle
    /\ InitWindowFields /\ nativeFullScreen \in BOOLEAN

SpecFullScreen == InitFullScreen /\ [][NextFullScreen]_vars

\* destroyWindow on a window that may have been loaded, while the window
\* may be loaded, destroyed and closed
NextDestroy ==
    \/ \E reopen, skipRestoreEditors, throws \in BOOLEAN :
          \E workspace \in {"undefined", "folder", "workspace"} :
             CallDestroyWindow(reopen, skipRestoreEditors, workspace, throws)
    \/ \E ok \in BOOLEAN : StorageInitSettled(ok)
    \/ \E ok \in BOOLEAN : StorageCloseSettled(ok)
    \/ \E how \in OpenOutcomes : OpenSettled(how)
    \/ load
    \/ \E l \in 1..MaxLoads : DidFinishLoad(l)
    \/ WinDestroyed
    \/ Closed

SpecDestroy == InitWindowRun /\ [][NextDestroy]_vars

----------------------------------------------------------------------------
(* Claims about the write queue and the flushing write *)

AsyncCalls == {c \in CallIds : calls[c].kind = "async"}

\* C1: for every queue key at most one writeFile call has its underlying
\* write in flight (fs.open or fs.writeFile started, callback not yet called).
C1_OneWriteInFlightPerKey ==
    \A c, d \in AsyncCalls :
        (/\ c # d
         /\ toQueueKey(calls[c].path) = toQueueKey(calls[d].path)
         /\ calls[c].stage \in InFlight)
        => calls[d].stage \notin InFlight

\* C1 witness: a later call for the same key is in flight on the queue the
\* earlier, now completed call ran on: it had to wait for it.
C1_Witness ==
    \E c, d \in AsyncCalls :
        /\ c < d
        /\ toQueueKey(calls[c].path) = toQueueKey(calls[d].path)
        /\ calls[c].queue = calls[d].queue
        /\ calls[c].stage = "done"
        /\ calls[d].stage \in InFlight

\* C2 as stated: every call that completed successfully had its data
\* forced to stable storage by a successful fdatasync.
C2_Original_SuccessImpliesSynced ==
    \A c \in CallIds : calls[c].result = "ok" => calls[c].synced

\* C2 amended: a call completed successfully without a successful fdatasync
\* only when an fdatasync failed in this session, which disabled flushing.
C2_SuccessImpliesSyncedOrFlushDisabled ==
    \A c \in CallIds : calls[c].result = "ok" => (calls[c].synced \/ ~canFlush)

\* C2 witness: a writeFile and a writeFileSync both completed successfully
\* after a successful fdatasync, flushing still enabled.
C2_Witness ==
    /\ canFlush
    /\ \E c \in CallIds : calls[c].kind = "async" /\ calls[c].result = "ok" /\ calls[c].synced
    /\ \E c \in CallIds : calls[c].kind = "sync" /\ calls[c].result = "ok" /\ calls[c].synced

\* C3 as stated: at every point during and after writeFile calls (no
\* writeFileSync made) every file holds complete data, the previous or the
\* new, never an empty or partially written content.
C3_Original_AlwaysCompleteContent ==
    (\A c \in CallIds : calls[c].kind # "sync")
    => \A f \in Files : content[f][1] = "full"

\* C3 amended: the write is in place, not atomic; what holds is that when a
\* writeFile call completes successfully and no other write of the same file
\* overlapped it, the file holds the complete new data at that moment.
C3_SuccessLeavesCompleteData ==
    [][\A c \in CallIds :
          (/\ calls'[c].kind = "async"
           /\ calls[c].stage # "done"
           /\ calls'[c].stage = "done"
           /\ calls'[c].result = "ok"
           /\ ~calls'[c].overlapped)
          => content'[FileOf(calls'[c].path)] = Full(c)]_vars

\* C3 witness: a writeFile completed successfully, with and without
\* flushing, and the file holds its data; another one failed after its open
\* and left the file empty or partially written.
C3_Witness ==
    /\ \E c \in AsyncCalls :
          /\ calls[c].result = "ok" /\ ~calls[c].overlapped
          /\ content[FileOf(calls[c].path)] = Full(c)
    /\ \E c \in AsyncCalls :
          /\ calls[c].result = "err"
          /\ content[FileOf(calls[c].path)] \in {Empty, Partial}

----------------------------------------------------------------------------
(* Claims about SymlinkSupport.stat, rimraf, copy and move *)

StatDone == op.name = "stat" /\ pc = "done"

\* The stats of the node the target of the link at real path ino names
TargetStats(ino) == StatsAt(Walk(<<>>, fs[ino].target, TRUE, MaxSymlinks))

\* C4: for a path that is no symbolic link the result is its lstat and
\* symbolicLink is undefined; for a symbolic link whose target exists the
\* result's stat is the stat of the target, not of the link, and
\* symbolicLink is {dangling: false}; it resolves whenever fs.stat succeeds.
C4_StatOfTarget ==
    StatDone =>
        LET l == fs_lstat(op.path)
            v == outcome.value
        IN  /\ (l.code = "" /\ l.stats.kind # "link")
                => (v.ok /\ v.stat = l.stats /\ v.symbolicLink = "undefined")
            /\ (l.code = "" /\ l.stats.kind = "link" /\ TargetStats(l.stats.ino).code = "" /\ v.ok)
                => (/\ v.stat = TargetStats(l.stats.ino).stats
                    /\ v.stat # l.stats
                    /\ v.symbolicLink = "notDangling")
            /\ (l.code = "" /\ l.stats.kind = "link" /\ fs_stat(op.path).code = "") => v.ok

\* C4 witness: stat of a symbolic link to an existing folder resolved with
\* the folder's stat
C4_Witness ==
    /\ StatDone
    /\ fs_lstat(op.path).code = "" /\ fs_lstat(op.path).stats.kind = "link"
    /\ outcome.value.ok
    /\ outcome.value.stat.kind = "dir"
    /\ outcome.value.symbolicLink = "notDangling"

\* C5: when lstat succeeds and stat fails with ENOENT the promise resolves
\* with the link's lstat and {dangling: true}; when stat fails and lstat had
\* failed, or the error is neither ENOENT nor EACCES on Windows, it rejects
\* with the stat error.
C5_DanglingOrReject ==
    StatDone =>
        LET l == fs_lstat(op.path)
            s == fs_stat(op.path)
            v == outcome.value
        IN  /\ (l.code = "" /\ l.stats.kind = "link" /\ s.code = "ENOENT")
                => (v.ok /\ v.stat = l.stats /\ v.symbolicLink = "dangling")
            /\ (/\ l.code # "" \/ l.stats.kind = "link"
                /\ s.code # ""
                /\ l.code # "" \/ ~(s.code = "ENOENT" \/ (isWindows /\ s.code = "EACCES")))
                => (~v.ok /\ v.code = s.code /\ outcome.status = "rejected")

\* C5 witness: stat of a link whose target does not exist resolved with the
\* link's own stat and dangling: true
C5_Witness ==
    /\ StatDone
    /\ fs_lstat(op.path).code = "" /\ fs_stat(op.path).code = "ENOENT"
    /\ outcome.status = "resolved"
    /\ outcome.value.stat.kind = "link"
    /\ outcome.value.symbolicLink = "dangling"

\* C6: rimraf (in both modes) and rimrafSync of a root fail with the refusal
\* at once: no fs call was made and the file system is unchanged.
C6_RootRefused ==
    (op.name \in {"rimraf", "rimrafSync"} /\ isRootOrDriveLetter(op.path))
    => (/\ pc = "done"
        /\ outcome.status = "rejected"
        /\ outcome.code = RefuseRoot
        /\ fsLog = <<>>
        /\ fs = fs0
        /\ bg = {})

\* C6 witness: rimraf of the root in MOVE mode was refused on a file system
\* that holds a folder
C6_Witness ==
    /\ op.name = "rimraf" /\ op.mode = "MOVE" /\ isRootOrDriveLetter(op.path)
    /\ outcome.code = RefuseRoot
    /\ <<"s", "f">> \in DOMAIN fs

\* The source path a target path of the copy corresponds to
SourceFor(target) == op.path \o Suffix(target, Len(op.target))

\* The target path a source path of the copy corresponds to
TargetFor(source) == op.target \o Suffix(source, Len(op.path))

\* C7 as stated: copy makes the folder of every directory of the source
\* at most once, also when a symbolic link points to an ancestor directory.
C7_EachDirectoryCopiedOnce ==
    op.name = "copy" =>
        \A i, j \in DOMAIN fsLog :
            (i < j /\ fsLog[i][1] = "mkdir" /\ fsLog[j][1] = "mkdir")
            => Walk(<<>>, SourceFor(fsLog[i][2]), TRUE, MaxSymlinks).path
                 # Walk(<<>>, SourceFor(fsLog[j][2]), TRUE, MaxSymlinks).path

\* A symbolic link whose target does not exist: lstat succeeds, stat fails
\* with ENOENT
DanglingLink(path) ==
    /\ fs_lstat(path).code = "" /\ fs_lstat(path).stats.kind = "link"
    /\ fs_stat(path).code = "ENOENT"

\* C8: for a source that is a dangling symbolic link, at the top level or
\* inside the tree, copy creates nothing at the corresponding target path
\* and does not reject because of it; the copy goes on with the entries
\* that follow and resolves unless another entry fails.
C8_DanglingLinkSkipped ==
    op.name = "copy" =>
        \A p \in handledSources :
            DanglingLink(p) =>
                /\ Loc(TargetFor(p)).code = "" => Loc(TargetFor(p)).path \notin DOMAIN fs
                /\ ~(outcome.status = "rejected" /\ outcome.path = p)
                /\ (pc = "done" /\ faulty = NoFault) => outcome.status = "resolved"

\* C8 witness: the copy resolved; the dangling link s/l was skipped and the
\* entry after it, s/z, was copied
C8_Witness ==
    /\ op.name = "copy" /\ outcome.status = "resolved"
    /\ <<"s", "l">> \in handledSources /\ DanglingLink(<<"s", "l">>)
    /\ <<"t", "l">> \notin DOMAIN fs
    /\ <<"t", "z">> \in DOMAIN fs /\ fs[<<"t", "z">>].data = "d2"

\* C9: move with source === target resolves at once: no fs call was made
\* and the file system is unchanged.
C9_MoveSamePathNoOp ==
    (op.name = "move" /\ op.path = op.target)
    => (/\ pc = "done"
        /\ outcome.status = "resolved"
        /\ fsLog = <<>>
        /\ fs = fs0
        /\ bg = {})

\* C9 witness: a file was moved onto itself
C9_Witness ==
    /\ op.name = "move" /\ op.path = op.target
    /\ outcome.status = "resolved"
    /\ <<"s">> \in DOMAIN fs /\ fs[<<"s">>].kind = "file"

\* The rename of the move failed with EXDEV for paths that differ ignoring case
Fallback ==
    /\ op.name = "move" /\ fsLog # <<>>
    /\ faulty.op = "rename" /\ faulty.code = "EXDEV" /\ Faulted("rename", op.target)
    /\ PathLower(op.path) # PathLower(op.target)

\* The places on the volume of the source and the target of the operation
SrcLoc == [i \in DOMAIN op.path |-> FsName(op.path[i])]

TgtLoc == [i \in DOMAIN op.target |-> FsName(op.target[i])]

\* Entry i of the log is a call of rimraf(source, MOVE)
RimrafEntry(i) == i > 1 /\ fsLog[i] \in {<<"rename", op.path>>, <<"rmdir", op.path>>}

CopyEntry(i) == fsLog[i][1] \in {"stat", "mkdir", "readdir", "copyFile"}

MtimeEntry(i) == fsLog[i][1] = "utimes"

RimrafBegun == \E i \in DOMAIN fsLog : RimrafEntry(i)

\* The source exists as it was before the move
SourceIntact ==
    \A q \in DOMAIN fs0 : IsPrefix(SrcLoc, q) => (q \in DOMAIN fs /\ fs[q] = fs0[q])

\* The target holds every folder and every file of the source
CopiedFully ==
    \A q \in DOMAIN fs0 :
        IsPrefix(SrcLoc, q) =>
            LET t == TgtLoc \o Suffix(q, Len(SrcLoc))
            IN  /\ fs0[q].kind = "dir" => (t \in DOMAIN fs /\ fs[t].kind = "dir")
                /\ fs0[q].kind = "file"
                     => (t \in DOMAIN fs /\ fs[t].kind = "file" /\ fs[t].data = fs0[q].data)

\* C10: in the fallback the calls of copy come first, then those of rimraf,
\* then the mtime update; while rimraf has not begun the source exists in
\* full, and it begins only after the copy is complete; a move whose copy
\* failed is rejected, one that resolved has deleted and updated the mtime.
C10_CopyThenDelete ==
    Fallback =>
        /\ \A i, j \in DOMAIN fsLog :
              i < j => /\ ~(RimrafEntry(i) /\ CopyEntry(j))
                       /\ ~(MtimeEntry(i) /\ (CopyEntry(j) \/ RimrafEntry(j)))
        /\ ~RimrafBegun => SourceIntact
        /\ RimrafBegun => CopiedFully
        /\ (pc = "done" /\ ~RimrafBegun) => outcome.status = "rejected"
        /\ outcome.status = "resolved"
              => (RimrafBegun /\ \E i \in DOMAIN fsLog : MtimeEntry(i))

\* C10 witness: the copy failed part-way, with a part of the target made;
\* the move is rejected and the source exists in full
C10_Witness ==
    /\ Fallback /\ outcome.status = "rejected"
    /\ <<"t", "f">> \in DOMAIN fs
    /\ <<"s", "z">> \in DOMAIN fs0 /\ SourceIntact

----------------------------------------------------------------------------
(* Claims about rimraf in MOVE mode *)

\* rimraf(path, RimRafMode.MOVE) on a path other than the root has settled
RimrafMoveDone ==
    pc = "done" /\ op.name = "rimraf" /\ op.mode = "MOVE" /\ ~isRootOrDriveLetter(op.path)

\* The path was deleted in place: rimrafUnlink(path) of pfs.ts:69
InPlace == \E i \in DOMAIN fsLog : fsLog[i] = <<"rmdir", op.path>>

\* The path of the operation (a name in the root) exists in file system f
OriginalAt(f) == <<FsName(Last(op.path))>> \in DOMAIN f

\* C11: rimraf(path, MOVE) first renames the path into the temp directory.
\* When the rename succeeds rimraf resolves with the path gone from its
\* original location, whether or not the temp copy is deleted yet or its
\* deletion fails; when the rename fails the path is deleted in place and
\* rimraf settles as that deletion does.
C11_RimrafMove ==
    /\ (op.name = "rimraf" /\ pc # "done") => outcome.status = "pending"
    /\ RimrafMoveDone =>
          /\ fsLog[1] = <<"rename", op.path>>
          /\ InPlace <=> (~OriginalAt(fs0) \/ Faulted("rename", pathInTemp))
          /\ ~InPlace => outcome.status = "resolved" /\ ~OriginalAt(fs)
          /\ InPlace =>
                IF Faulted("rmdir", op.path)
                THEN outcome.status = "rejected" /\ outcome.code = faulty.code /\ fs = fs0
                ELSE outcome.status = "resolved" /\ ~OriginalAt(fs)

\* rimraf resolved although the deletion of the temp copy failed
C11_Witness ==
    /\ RimrafMoveDone /\ ~InPlace
    /\ outcome.status = "resolved"
    /\ bg = {} /\ pathInTemp \in DOMAIN fs
    /\ fsLog[Len(fsLog)] = <<"rmdir", pathInTemp>>

----------------------------------------------------------------------------
(* Claims about readdir *)

ReaddirDone ==
    pc = "done" /\ op.name \in {"readdir", "readdirSync", "readdirWithFileTypes"}

\* The name of the i-th entry returned
NameAt(i) ==
    IF op.name = "readdirWithFileTypes"
    THEN outcome.value.files[i].name
    ELSE outcome.value.files[i]

\* C12: readdir, readdirSync and readdirWithFileTypes return the entries of
\* fs.readdir, as many and in the same order; on macOS every name is the
\* NFC form of the name fs.readdir gave, on the other platforms it is that
\* name unchanged.  An error of fs.readdir is the error of the call.
C12_ReaddirNFC ==
    ReaddirDone =>
        LET raw == fs_readdirWithFileTypes(op.path)
        IN  IF raw.code # ""
            THEN outcome.status = "rejected" /\ outcome.code = raw.code
            ELSE /\ outcome.status = "resolved"
                 /\ Len(outcome.value.files) = Len(raw.files)
                 /\ \A i \in DOMAIN raw.files :
                       /\ isMacintosh => IsNFC(NameAt(i)) /\ NameAt(i) = normalizeNFC(raw.files[i].name)
                       /\ ~isMacintosh => NameAt(i) = raw.files[i].name
                       /\ op.name = "readdirWithFileTypes" =>
                              outcome.value.files[i].kind = raw.files[i].kind

\* A folder with a decomposed name among others was listed on macOS
C12_Witness ==
    /\ ReaddirDone /\ outcome.status = "resolved" /\ isMacintosh
    /\ Len(outcome.value.files) > 2
    /\ \E i \in DOMAIN outcome.value.files :
          fs_readdir(op.path).files[i] = "nfd" /\ NameAt(i) = "nfc"

----------------------------------------------------------------------------
(* Claims about whenDeleted *)

\* The poll results so far, in order
PollResults == SelectSeq(fsLog, LAMBDA e : e[1] \in {"ok", "err"})

\* Safety of whenDeleted: the promise is resolved exactly when a poll failed;
\* the failing poll is the last fs call made, the interval is cleared with
\* it and no poll is in flight afterwards.
WhenDeletedSafe ==
    op.name = "whenDeleted" =>
        /\ outcome.status = "resolved" <=> \E i \in DOMAIN fsLog : fsLog[i][1] = "err"
        /\ outcome.status = "resolved" <=> interval = "cleared"
        /\ outcome.status # "rejected"
        /\ \A i \in DOMAIN fsLog : fsLog[i][1] = "err" => i = Len(fsLog)
        /\ interval = "cleared" => ~running
        /\ Polls = Len(PollResults) + (IF running THEN 1 ELSE 0)

\* C13: whenDeleted(path) does not resolve while every poll finds the path
\* accessible, it resolves with the first poll in which fs.access fails,
\* the interval is then cleared and no further poll is issued; a path that
\* is deleted and stays deleted makes the promise resolve eventually.
C13_WhenDeleted ==
    /\ []WhenDeletedSafe
    /\ (<>[](op.name = "whenDeleted" /\ fs_access(op.path) # "")) => <>(outcome.status = "resolved")

\* The promise resolved in a later poll, after a poll that found the path
C13_Witness ==
    /\ op.name = "whenDeleted" /\ outcome.status = "resolved"
    /\ faulty = NoFault
    /\ Len(PollResults) > 1 /\ PollResults[1][1] = "ok"
    /\ <<"w">> \notin DOMAIN fs

----------------------------------------------------------------------------
(* Claims about the queue key *)

\* Two writeFile calls whose paths differ in letter case only
CaseTwins(c, d) ==
    /\ c \in AsyncCalls /\ d \in AsyncCalls
    /\ calls[c].path # calls[d].path
    /\ toLowerCase(calls[c].path) = toLowerCase(calls[d].path)

\* C14: on Windows and macOS two writeFile calls whose paths differ in
\* letter case only have one queue key, share the queue while both are
\* pending and are never in flight together; on the other platforms the
\* key is the path and the two calls are on different queues.
C14_QueueKeyIgnoresCase ==
    \A c, d \in CallIds :
        CaseTwins(c, d) =>
            IF isWindows \/ isMacintosh
            THEN /\ toQueueKey(calls[c].path) = toQueueKey(calls[d].path)
                 /\ (calls[c].stage # "done" /\ calls[d].stage # "done")
                        => calls[c].queue = calls[d].queue
                 /\ ~(calls[c].stage \in InFlight /\ calls[d].stage \in InFlight)
            ELSE /\ toQueueKey(calls[c].path) = calls[c].path
                 /\ toQueueKey(calls[d].path) = calls[d].path
                 /\ calls[c].queue # calls[d].queue
                 /\ queues[calls[c].queue].key # queues[calls[d].queue].key

\* On a platform that ignores case a call waits in the queue of its twin
C14_Witness ==
    /\ isWindows \/ isMacintosh
    /\ \E c, d \in CallIds :
          /\ CaseTwins(c, d)
          /\ calls[c].stage \in InFlight /\ calls[d].stage = "queued"
          /\ calls[c].queue = calls[d].queue
          /\ queues[calls[c].queue].outstanding = <<d>>

----------------------------------------------------------------------------
(* Claims about the failure of fdatasync *)

\* The write of call c starts in this step (a writeFileSync call is made, or
\* the queue runs the task of a writeFile call)
Starts(c) ==
    /\ calls[c].stage \in {"none", "queued"}
    /\ calls'[c].stage \notin {"none", "queued"}

\* C15: canFlush never turns from false to true; a failed fdatasync sets it
\* to false, and the write it failed in is reported as successful when the
\* close succeeds; every write that starts while canFlush is false is a
\* plain fs.writeFile without fs.open and fs.fdatasync.
C15_FlushDisabledForGood ==
    [][ /\ ~canFlush => ~canFlush'
        /\ \A c \in CallIds :
              /\ (calls[c].stage = "sync" /\ calls'[c].stage = "close" /\ ~calls'[c].synced)
                    => ~canFlush'
              /\ (calls[c].stage = "close" /\ ~calls[c].synced /\ CloseCallback(c, TRUE))
                    => calls'[c].result = "ok"
              /\ (Starts(c) /\ calls'[c].kind = "sync" /\ calls'[c].flushing
                             /\ ~calls'[c].synced /\ calls'[c].result = "ok")
                    => ~canFlush'
              /\ (Starts(c) /\ ~canFlush)
                    => /\ ~calls'[c].flushing /\ ~calls'[c].synced
                       /\ calls'[c].stage \in {"plain", "done"}
                       /\ calls'[c].stage = "done" => calls'[c].kind = "sync"
      ]_vars

\* A write whose fdatasync failed was reported as successful, and a write
\* made after it took the plain way and succeeded
C15_Witness ==
    /\ ~canFlush
    /\ \E c, d \in CallIds :
          /\ c < d
          /\ calls[c].stage = "done" /\ calls[c].flushing /\ ~calls[c].synced
          /\ calls[c].result = "ok"
          /\ calls[d].stage = "done" /\ ~calls[d].flushing /\ calls[d].result = "ok"
          /\ content[FileOf(calls[d].path)] = Full(d)

----------------------------------------------------------------------------
(* Claims about the ready state of the window *)

\* C16 as stated: a message given to sendWhenReady reaches webContents.send
\* only while readyState is READY, at once or in the then callback that
\* runs after a later setReady.
C16_SentOnlyWhenReady ==
    \A i \in DOMAIN sent :
        sent[i].via \in {"sendWhenReady", "then"} => sent[i].readyState = "READY"

\* C17: a promise of ready() is resolved at the call when the window is
\* ready, and otherwise by the next setReady and by nothing else; setReady
\* calls every callback of whenReadyCallbacks once and leaves the array
\* empty; while the window is ready no promise is pending.
C17_ReadyPromise ==
    /\ [](/\ \A p \in DOMAIN promises :
                /\ promises[p].invoked <= 1
                /\ promises[p].state = "resolved" <=> promises[p].invoked = 1
                /\ promises[p].state = "pending" <=> p \in Range(whenReadyCallbacks)
                /\ Occurrences(whenReadyCallbacks, p) <= 1
            /\ isReady => whenReadyCallbacks = <<>>)
    /\ [][ /\ Len(promises') = Len(promises) + 1
               => (promises'[Len(promises')].state = "resolved" <=> isReady)
           /\ \A p \in DOMAIN promises :
                 (promises[p].state = "pending" /\ promises'[p].state = "resolved")
                    => setReady
           /\ setReady
               => /\ whenReadyCallbacks' = <<>>
                  /\ isReady'
                  /\ \A p \in Range(whenReadyCallbacks) :
                        promises'[p].state = "resolved" /\ promises'[p].invoked = 1
         ]_vars

\* Two promises requested while the window was navigating were resolved by
\* one setReady
C17_Witness ==
    /\ isReady /\ nLoads > 0
    /\ Len(promises) > 1
    /\ \A p \in DOMAIN promises :
          promises[p].state = "resolved" /\ promises[p].invoked = 1
    /\ promises[1].channel # "" /\ promises[2].channel = ""
    /\ \E i \in DOMAIN sent : sent[i].via = "then" /\ sent[i].promise = 1

----------------------------------------------------------------------------
(* Claims about load *)

----------------------------------------------------------------------------
(* Claims about send *)

\* C19: webContents.send is called on a window that is not destroyed and
\* whose web contents are not destroyed, and nowhere else; on a destroyed
\* window send logs a warning and nothing more; an error thrown by
\* webContents.send ends in a warning; without a window nothing happens.
C19_SendIsSafe ==
    /\ [](\A i \in DOMAIN sent : sent[i].win = "live")
    /\ [][ /\ Len(sent') \in {Len(sent), Len(sent) + 1}
           /\ Len(sent') = Len(sent) + 1
               => /\ win = "live"
                  /\ SubSeq(sent', 1, Len(sent)) = sent
                  /\ warnings' = warnings + (IF sent'[Len(sent')].threw THEN 1 ELSE 0)
           /\ (Len(sent') = Len(sent) /\ warnings' # warnings)
               => /\ win \in {"destroyed", "contentsDestroyed"}
                  /\ warnings' = warnings + 1
                  /\ sent' = sent
           /\ win = "null" => sent' = sent /\ warnings' = warnings
           /\ \A channel \in Channels :
                 (CallSend(channel) /\ win \in {"destroyed", "contentsDestroyed"})
                    => warnings' = warnings + 1 /\ sent' = sent
         ]_vars

\* An error of webContents.send was logged, and so was a send to the
\* window after it was destroyed
C19_Witness ==
    /\ win = "destroyed"
    /\ \E i \in DOMAIN sent : sent[i].threw /\ sent[i].via = "send"
    /\ warnings = 1 + Cardinality({i \in DOMAIN sent : sent[i].threw})

----------------------------------------------------------------------------
(* Claims about the native fullscreen transitions *)

\* The native transition of request r is not finished
InTransition(r) == r \in Range(nativeQueue)

\* C20 as stated: on macOS, as long as the transition of the latest
\* fullscreen request is not finished and its timeout has not elapsed,
\* isFullScreen is the value requested.
C20_TransientUntilTransitionEnds ==
    (isMacintosh /\ requests # <<>>) =>
        LET r == Len(requests)
        IN  (InTransition(r) /\ requests[r].timer = "armed")
                => (isFullScreen <=> requests[r].fullscreen)

----------------------------------------------------------------------------
(* destroyWindow *)

\* Where destroyWindow made the call e (0: it did not make it)
LogIndex(e) ==
    IF \E i \in DOMAIN windowLog : windowLog[i] = e
    THEN CHOOSE i \in DOMAIN windowLog :
            windowLog[i] = e /\ \A j \in 1..(i - 1) : windowLog[j] # e
    ELSE 0

\* The order of the calls of destroyWindow: onDidDestroy is fired once and
\* before windowsMainService.open; open is called only with reopen and a
\* config; destroy is called last, after the fire, and when a window was to
\* be opened after open was called and its promise settled
DestroyOrder ==
    /\ \A e \in {"fire", "open", "destroy"} : Occurrences(windowLog, e) <= 1
    /\ LogIndex("open") # 0 =>
          /\ LogIndex("fire") # 0 /\ LogIndex("fire") < LogIndex("open")
          /\ destroying.reopen /\ destroying.config # 0 /\ config # 0
    /\ LogIndex("destroy") # 0 =>
          /\ destroying.pc = "done"
          /\ LogIndex("destroy") = Len(windowLog)
          /\ win \in {"destroyed", "null"}
          /\ LogIndex("fire") # 0
          /\ (destroying.reopen /\ destroying.config # 0) =>
                /\ LogIndex("open") # 0
                /\ \E i \in DOMAIN windowLog :
                      /\ windowLog[i] \in {"opened", "openFailed"}
                      /\ LogIndex("open") < i /\ i < LogIndex("destroy")
    /\ destroying.pc = "done" =>
          /\ LogIndex("fire") # 0
          /\ (destroying.reopen /\ destroying.config # 0) => LogIndex("open") # 0
          /\ destroying.result = "rejected" =>
                (LogIndex("openFailed") # 0 \/ LogIndex("focus") # 0)

\* C21 as stated: destroyWindow fires onDidDestroy before any reopen
\* attempt, opens a replacement window only when reopen is true and the
\* window has a config, and always calls win.destroy() after the reopen
\* attempt has finished, also when opening the new window throws; the window
\* is never destroyed before the replacement window was requested.
C21_Original_AlwaysDestroys ==
    /\ DestroyOrder
    /\ destroying.pc = "done" => LogIndex("destroy") # 0

\* C21, amended: the same, but win.destroy() is called at the end only if
\* the window still has its BrowserWindow: when the window was closed
\* while destroyWindow awaited (_win is null), destroy is not called.
C21_DestroysUnlessClosed ==
    /\ DestroyOrder
    /\ destroying.pc = "done" => (LogIndex("destroy") # 0 \/ win = "null")

\* destroyWindow ended with the window destroyed although opening the new
\* window failed
C21_Witness ==
    /\ destroying.pc = "done" /\ destroying.result = "rejected"
    /\ LogIndex("fire") # 0 /\ LogIndex("fire") < LogIndex("open")
    /\ LogIndex("open") < LogIndex("openFailed")
    /\ LogIndex("openFailed") < LogIndex("destroy")
    /\ win = "destroyed"

----------------------------------------------------------------------------
(* Claims about the order of the queued writes *)

\* writeFile calls c and d, made or being made in this step, have one key
SameKey(c, d) ==
    /\ calls'[c].kind = "async" /\ calls'[d].kind = "async"
    /\ toQueueKey(calls'[c].path) = toQueueKey(calls'[d].path)

\* The underlying write of writeFile call c ends in this step: callback is
\* called and the promise of the call settles
Finishes(c) ==
    /\ calls[c].kind = "async"
    /\ calls[c].stage \in InFlight /\ calls'[c].stage = "done"

\* The writeFile calls that wait in a queue for the key of call c
Waiting(c) ==
    {d \in AsyncCalls : calls[d].stage = "queued" /\ SameKey(c, d)}

\* C22: the writes queued for one key are executed in the order of the
\* writeFile calls, each exactly once: a write starts only when every
\* earlier call for its key is done, a call that waits stays in its queue
\* until it starts and a call that started never starts again; a write that
\* ends, with or without error, settles the promise of its own call only
\* (a failure is the result of that call alone), and in the same step the
\* earliest call that waits for the key starts.
C22_QueuedWritesInOrder ==
    [][ \A c \in CallIds :
          /\ (Starts(c) /\ calls'[c].kind = "async")
                => \A d \in 1..(c - 1) : SameKey(c, d) => calls'[d].stage = "done"
          /\ (calls[c].kind = "async" /\ calls[c].stage = "queued")
                => calls'[c].stage \in {"queued", "open", "plain"}
          /\ (calls[c].kind = "async" /\ calls[c].stage \notin {"none", "queued"})
                => calls'[c].stage \notin {"none", "queued"}
          /\ calls[c].stage = "done"
                => calls'[c].stage = "done" /\ calls'[c].result = calls[c].result
          /\ Finishes(c)
                => /\ calls'[c].result \in {"ok", "err"}
                   /\ \A d \in CallIds \ {c} : calls'[d].result = calls[d].result
                   /\ \A d \in Waiting(c) :
                         IF \A e \in Waiting(c) : d <= e
                         THEN Starts(d)
                         ELSE calls'[d].stage = "queued"
      ]_vars

\* The first of three writes for one key failed, the second runs and the
\* third still waits
C22_Witness ==
    \E c, d, e \in AsyncCalls :
        /\ c < d /\ d < e
        /\ toQueueKey(calls[c].path) = toQueueKey(calls[d].path)
        /\ toQueueKey(calls[d].path) = toQueueKey(calls[e].path)
        /\ calls[c].stage = "done" /\ calls[c].result = "err"
        /\ calls[d].stage \in InFlight /\ calls[d].result = "none"
        /\ calls[e].stage = "queued"
        /\ queues[calls[e].queue].outstanding = <<e>>

----------------------------------------------------------------------------
(* Claims about writes for different keys *)

\* A callback of the underlying write of call c arrives
Progress(c) ==
    \/ \E ok \in BOOLEAN : OpenCallback(c, ok)
    \/ \E ok \in BOOLEAN : WriteCallback(c, ok)
    \/ \E ok \in BOOLEAN : SyncCallback(c, ok)
    \/ \E ok \in BOOLEAN : CloseCallback(c, ok)
    \/ CloseAfterErrorCallback(c)
    \/ \E ok \in BOOLEAN : PlainCallback(c, ok)

\* C23: writes for different queue keys are independent.  A writeFile call
\* whose key has no call that is not done starts its write in the step of
\* the call, whatever calls for other keys are pending; a step that changes
\* a writeFile call leaves alone every writeFile call for another key and
\* the queue of that key; and the write of a call that is in flight can go
\* on whatever the calls for other keys do.
C23_KeysAreIndependent ==
    [][ \A c \in CallIds :
          /\ (/\ calls[c].kind = "none" /\ calls'[c].kind = "async"
               /\ \A d \in 1..(c - 1) : SameKey(c, d) => calls[d].stage = "done")
                => Starts(c)
          /\ (calls'[c].kind = "async" /\ calls'[c] # calls[c])
                => \A d \in AsyncCalls :
                      ~SameKey(c, d)
                         => /\ calls'[d] = calls[d]
                            /\ queues'[calls[d].queue] = queues[calls[d].queue]
                            /\ writeFilePathQueues'[toQueueKey(calls[d].path)]
                                  = writeFilePathQueues[toQueueKey(calls[d].path)]
          /\ (calls[c].kind = "async" /\ calls[c].stage \in InFlight)
                => ENABLED Progress(c)
      ]_vars

\* A write for one key was called, started and completed while an earlier
\* write for another key is still pending
C23_Witness ==
    \E c, d \in AsyncCalls :
        /\ c < d
        /\ toQueueKey(calls[c].path) # toQueueKey(calls[d].path)
        /\ calls[c].stage = "open"
        /\ calls[d].stage = "done" /\ calls[d].result = "ok"
        /\ calls[d].queue # calls[c].queue

====
